---- MODULE Spec2Model ----
(***************************************************************************)
(* A model of the GEO audit core of geo-optimizer: the robots.txt          *)
(* directive parser and AI-bot classifier (utils/robots_parser.py), the    *)
(* checks, the score / band / recommendation computation and the two       *)
(* orchestrators (core/audit.py, models/config.py), the JSON formatter's   *)
(* per-check scores (cli/formatters.py), the sitemap fetcher               *)
(* (core/llms_generator.py) and the public-URL guard with its callers      *)
(* (utils/validators.py, cli/audit_cmd.py, web/app.py).                    *)
(*                                                                         *)
(* Text is modelled by tokens.  A robots.txt line is a record              *)
(*     [key |-> k, val |-> v, cmt |-> c]                                   *)
(* standing for the text  k ":" v "#" c  (no "#" part when c = ""); a      *)
(* blank line is BlankLine and a comment line has key "#".  Keys and       *)
(* agent names keep the letter case they are written in; Lower is          *)
(* str.lower() on the spellings the model uses.  A formatted string        *)
(* (f-string) is the tuple of its parts.                                   *)
(***************************************************************************)
EXTENDS Integers, Sequences, FiniteSets, TLC

VARIABLES
    resp,         \* robots.txt fetch outcome: [err, status]; status 0: no response
    text,         \* the response body, a sequence of lines
    pc,           \* position of the handler under study
    agent_rules,  \* parse_robots_txt's result: entries in dict insertion order
    robots,       \* RobotsResult
    bot_status,   \* classify_bot's result: <<>> before the call, <<BotStatus>> after
    llms,         \* LlmsTxtResult
    schema,       \* SchemaResult (the flags)
    meta,         \* MetaResult (the flags)
    content,      \* ContentResult (the flags)
    score,        \* compute_geo_score's result
    band,         \* get_score_band's result
    home,         \* homepage fetch outcome: [err, status]
    page,         \* the homepage document
    llms_resp,    \* llms.txt fetch outcome: [err, status]
    llms_text,    \* the llms.txt body, a sequence of lines
    base_url,     \* the normalised target URL
    recommendations, \* AuditResult.recommendations
    checks,       \* the per-check scores format_audit_json emits
    found_types,  \* SchemaResult.found_types
    raw_schemas,  \* SchemaResult.raw_schemas
    raised,       \* the exception that left the handler, "" when none
    tasks,        \* fetch_urls_async: the state of each fetch task
    completed,    \* fetch_urls_async: the tasks in the order they completed
    responses,    \* fetch_urls_async's result: URL and outcome, in dict order
    sitemaps,     \* what each sitemap URL serves
    stack,        \* fetch_sitemap's call stack, innermost call first
    urls,         \* the list the outermost fetch_sitemap returned
    sent,         \* fetch_sitemap: HTTP requests the retrying session sent
    entry,        \* the entry point an audit came in by
    url,          \* the target as the caller gave it
    guard,        \* validate_public_url's verdict, "" when it was not asked
    cached,       \* the web cache holds a fresh result for the target
    requested,    \* the fetches issued (session.get, client.get), in order
    linked,       \* generate_llms_txt: the links of the text it returned, in order
    audit_cache,  \* web/app.py _audit_cache: the entries, in insertion order
    file_cache,   \* FileCache: the files of the cache directory
    now,          \* time.time()
    served,       \* what the last web handler or FileCache call answered
    log           \* the FileCache calls made so far

robotsVars == <<resp, text, agent_rules, robots, bot_status>>
scoreVars == <<llms, schema, meta, content, score, band>>
inputVars == <<home, page, llms_resp, llms_text>>
resultVars == <<base_url, recommendations, checks, found_types, raw_schemas, raised>>
asyncVars == <<tasks, completed, responses>>
sitemapVars == <<sitemaps, stack, urls, sent>>
guardVars == <<entry, url, guard, cached>>
auditVars == <<inputVars, resultVars>>
storeVars == <<linked, audit_cache, file_cache, now, served, log>>
pipelineVars == <<asyncVars, sitemapVars, guardVars, requested, storeVars>>
vars == <<pc, robotsVars, scoreVars, auditVars, pipelineVars>>

----------------------------------------------------------------------------
(* Bounds of the model.                                                    *)

\* longest robots.txt body (in lines) of a 200 response
MaxLines == 4
\* longest body (in lines) of a response that is not 200
MaxErrLines == 1
\* most Allow/Disallow entries of a rule map handed to classify_bot directly
MaxRules == 2
\* how far below 0 and above 100 get_score_band is tried
MaxOutside == 20
\* longest text before, and after, the stacked group of the files of InitStacked
MaxPrefix == 2
MaxSuffix == 1
\* most JSON-LD script blocks of a homepage audited for its schema alone
MaxScripts == 2

----------------------------------------------------------------------------
(* Strings.                                                                *)

\* str.lower() on the spellings that occur in the model
Lower(s) ==
    CASE s = "GPTBot" -> "gptbot"
      [] s = "OAI-SearchBot" -> "oai-searchbot"
      [] s = "ChatGPT-User" -> "chatgpt-user"
      [] s = "ClaudeBot" -> "claudebot"
      [] s = "PerplexityBot" -> "perplexitybot"
      [] s = "Perplexity-User" -> "perplexity-user"
      [] s = "Google-Extended" -> "google-extended"
      [] s = "Applebot-Extended" -> "applebot-extended"
      [] s = "DuckAssistBot" -> "duckassistbot"
      [] s = "Bytespider" -> "bytespider"
      [] s = "User-agent" -> "user-agent"
      [] s = "USER-AGENT" -> "user-agent"
      [] s = "Disallow" -> "disallow"
      [] s = "DISALLOW" -> "disallow"
      [] s = "Allow" -> "allow"
      [] s = "Sitemap" -> "sitemap"
      [] OTHER -> s

\* models/config.py AI_BOTS: the roster, in dict order, name and description
AI_BOTS ==
    << <<"GPTBot", "OpenAI (ChatGPT training)">>,
       <<"OAI-SearchBot", "OpenAI (ChatGPT search citations)">>,
       <<"ChatGPT-User", "OpenAI (ChatGPT on-demand fetch)">>,
       <<"anthropic-ai", "Anthropic (Claude training)">>,
       <<"ClaudeBot", "Anthropic (Claude citations)">>,
       <<"claude-web", "Anthropic (Claude web crawl)">>,
       <<"PerplexityBot", "Perplexity AI (index builder)">>,
       <<"Perplexity-User", "Perplexity (citation fetch on-demand)">>,
       <<"Google-Extended", "Google (Gemini training)">>,
       <<"Applebot-Extended", "Apple (AI training)">>,
       <<"cohere-ai", "Cohere (language models)">>,
       <<"DuckAssistBot", "DuckDuckGo AI">>,
       <<"Bytespider", "ByteDance/TikTok AI">>,
       <<"meta-externalagent", "Meta AI (Facebook/Instagram AI)">> >>

BotNames == {AI_BOTS[i][1] : i \in 1..Len(AI_BOTS)}

CITATION_BOTS == {"OAI-SearchBot", "ClaudeBot", "PerplexityBot"}

----------------------------------------------------------------------------
(* URLs.  A URL is the record of the parts urlparse finds in it: scheme    *)
(* ("" when the text has no "scheme://"), whether the authority carries    *)
(* user information ("user@"), host and path.                              *)

Url(scheme, host, path) == [scheme |-> scheme, userinfo |-> FALSE, host |-> host, path |-> path]
NoUrl == Url("", "", "")

\* urljoin(base, path) for a path that starts with "/"
urljoin(base, path) == [base EXCEPT !.path = path]

\* url.rstrip("/"), then "https://" put before a text that starts with
\* neither "http://" nor "https://"
NormaliseUrl(u) ==
    LET stripped == IF u.path = "/" THEN [u EXCEPT !.path = ""] ELSE u
    IN IF stripped.scheme \in {"http", "https"} THEN stripped
       ELSE [stripped EXCEPT !.scheme = "https"]

----------------------------------------------------------------------------
(* robots.txt lines.                                                       *)

Line(k, v, c) == [key |-> k, val |-> v, cmt |-> c]
BlankLine == Line("", "", "")

\* User-agent tokens written in the modelled files: GPTBot in two spellings
\* and the wildcard
AgentTokens == {"GPTBot", "gptbot", "*"}

\* The lines a modelled robots.txt is made of.  Directive keys come in
\* several letter cases and some lines carry an inline comment.
AgentLines ==
    { Line("User-agent", "GPTBot", ""),
      Line("user-agent", "gptbot", "lower case"),
      Line("USER-AGENT", "*", "") }
RuleLines ==
    { Line("Disallow", "/", ""),
      Line("DISALLOW", "/private/", "secret stuff"),
      Line("Allow", "/", ""),
      Line("allow", "/*", "") }
OtherLines == { Line("Sitemap", "https://example.com/sitemap.xml", "") }
SkippedLines == { BlankLine, Line("#", "", "a comment line") }
LineSet == AgentLines \cup RuleLines \cup OtherLines \cup SkippedLines

\* line.split(":", 1)[1].strip().split("#")[0].strip(): the value without
\* its inline comment
DirectiveValue(line) == line.val

\* `not line or line.startswith("#")` after line.strip()
IsSkipped(line) == line = BlankLine \/ line.key = "#"

----------------------------------------------------------------------------
(* utils/robots_parser.py                                                  *)

AgentRules(a) == [agent |-> a, allow |-> <<>>, disallow |-> <<>>]

Keys(rules) == {rules[i].agent : i \in 1..Len(rules)}

\* agent_rules[agent]
RulesOf(rules, a) == rules[CHOOSE i \in 1..Len(rules) : rules[i].agent = a]

\* agent_rules[agent].disallow.append(path) for every agent in current_agents,
\* one append per occurrence in the list
RECURSIVE AppendDisallow(_, _, _)
AppendDisallow(rules, agents, path) ==
    IF agents = <<>> THEN rules
    ELSE AppendDisallow(
           [i \in 1..Len(rules) |->
              IF rules[i].agent = Head(agents)
              THEN [rules[i] EXCEPT !.disallow = Append(@, path)]
              ELSE rules[i]],
           Tail(agents), path)

\* AppendAllow with the bug of a parser that does not track Allow lines
AppendAllow_dropped(rules, agents, path) == rules

RECURSIVE AppendAllow(_, _, _)
AppendAllow(rules, agents, path) ==
    IF agents = <<>> THEN rules
    ELSE AppendAllow(
           [i \in 1..Len(rules) |->
              IF rules[i].agent = Head(agents)
              THEN [rules[i] EXCEPT !.allow = Append(@, path)]
              ELSE rules[i]],
           Tail(agents), path)

\* The state of parse_robots_txt's loop before the first line
ParseStart == [agent_rules |-> <<>>, current_agents |-> <<>>, last_was_agent |-> FALSE]

\* ParseLine with the bug that a line that is no directive leaves
\* last_was_agent as it is, so it does not end a run of User-agent lines
ParseLine_other_keeps_stacking(st, line) ==
    IF IsSkipped(line) THEN st
    ELSE IF Lower(line.key) = "user-agent" THEN
        LET agent == DirectiveValue(line)
            cur == IF st.last_was_agent THEN st.current_agents ELSE <<>>
        IN [agent_rules |-> IF agent \in Keys(st.agent_rules)
                            THEN st.agent_rules
                            ELSE Append(st.agent_rules, AgentRules(agent)),
            current_agents |-> Append(cur, agent),
            last_was_agent |-> TRUE]
    ELSE IF Lower(line.key) = "disallow" THEN
        [st EXCEPT !.agent_rules = AppendDisallow(@, st.current_agents, DirectiveValue(line)),
                   !.last_was_agent = FALSE]
    ELSE IF Lower(line.key) = "allow" THEN
        [st EXCEPT !.agent_rules = AppendAllow(@, st.current_agents, DirectiveValue(line)),
                   !.last_was_agent = FALSE]
    ELSE st

\* One iteration of parse_robots_txt's loop
ParseLine(st, line) ==
    IF IsSkipped(line) THEN st
    ELSE IF Lower(line.key) = "user-agent" THEN
        LET agent == DirectiveValue(line)
            cur == IF st.last_was_agent THEN st.current_agents ELSE <<>>
        IN [agent_rules |-> IF agent \in Keys(st.agent_rules)
                            THEN st.agent_rules
                            ELSE Append(st.agent_rules, AgentRules(agent)),
            current_agents |-> Append(cur, agent),
            last_was_agent |-> TRUE]
    ELSE IF Lower(line.key) = "disallow" THEN
        [st EXCEPT !.agent_rules = AppendDisallow(@, st.current_agents, DirectiveValue(line)),
                   !.last_was_agent = FALSE]
    ELSE IF Lower(line.key) = "allow" THEN
        [st EXCEPT !.agent_rules = AppendAllow(@, st.current_agents, DirectiveValue(line)),
                   !.last_was_agent = FALSE]
    ELSE [st EXCEPT !.last_was_agent = FALSE]

\* The loop state after the lines of `lines`
RECURSIVE ParseLoop(_, _)
ParseLoop(st, lines) ==
    IF lines = <<>> THEN st ELSE ParseLoop(ParseLine(st, Head(lines)), Tail(lines))

parse_robots_txt(lines) == ParseLoop(ParseStart, lines).agent_rules

\* IsRoot with the bug of prefix matching: any path that starts with "/"
IsRoot_prefix(p) == p # ""

\* `d in ["/", "/*"]`
IsRoot(p) == p \in {"/", "/*"}

\* FindAgent with the bug of comparing the names as written
RECURSIVE FindAgent_case_sensitive(_, _)
FindAgent_case_sensitive(bot, rules) ==
    IF rules = <<>> THEN <<>>
    ELSE IF Head(rules).agent = bot THEN <<Head(rules).agent>>
    ELSE FindAgent_case_sensitive(bot, Tail(rules))

\* The loop of classify_bot: the first key, in dict order, equal to the bot
\* name without regard to case; <<>> is None
RECURSIVE FindAgent(_, _)
FindAgent(bot, rules) ==
    IF rules = <<>> THEN <<>>
    ELSE IF Lower(Head(rules).agent) = Lower(bot) THEN <<Head(rules).agent>>
    ELSE FindAgent(bot, Tail(rules))

BotStatus(bot, description, status, matched, paths) ==
    [bot |-> bot, description |-> description, status |-> status,
     matched_agent |-> matched, disallow_paths |-> paths]

classify_bot(bot, description, rules) ==
    LET direct == FindAgent(bot, rules)
        found_agent == IF direct = <<>> /\ "*" \in Keys(rules) THEN <<"*">> ELSE direct
    IN IF found_agent = <<>> THEN BotStatus(bot, description, "missing", <<>>, <<>>)
       ELSE LET r == RulesOf(rules, found_agent[1])
                is_blocked == \E i \in 1..Len(r.disallow) : IsRoot(r.disallow[i])
                has_allow_root == \E i \in 1..Len(r.allow) : IsRoot(r.allow[i])
            IN IF is_blocked /\ ~has_allow_root
               THEN BotStatus(bot, description, "blocked", found_agent, r.disallow)
               ELSE IF r.disallow = <<>> \/ \A i \in 1..Len(r.disallow) : r.disallow[i] = ""
               THEN BotStatus(bot, description, "allowed", found_agent, <<>>)
               ELSE BotStatus(bot, description, "allowed", found_agent, r.disallow)

----------------------------------------------------------------------------
(* core/audit.py: the robots check                                         *)

RobotsResult(found, allowed, missing, blocked, ok) ==
    [found |-> found, bots_allowed |-> allowed, bots_missing |-> missing,
     bots_blocked |-> blocked, citation_bots_ok |-> ok]

\* RobotsResult(): the dataclass defaults
DefaultRobots == RobotsResult(FALSE, <<>>, <<>>, <<>>, FALSE)

InSeq(x, s) == \E i \in 1..Len(s) : s[i] = x

\* The roster bots, in roster order, whose classification is `status`
RECURSIVE BotsWithStatus(_, _, _)
BotsWithStatus(bots, rules, status) ==
    IF bots = <<>> THEN <<>>
    ELSE LET b == Head(bots)
             rest == BotsWithStatus(Tail(bots), rules, status)
         IN IF classify_bot(b[1], b[2], rules).status = status
            THEN <<b[1]>> \o rest
            ELSE rest

\* ClassifyRoster with the blocked bots appended to bots_allowed as well
ClassifyRoster_blocked_twice(rules) ==
    LET missing == BotsWithStatus(AI_BOTS, rules, "missing")
        blocked == BotsWithStatus(AI_BOTS, rules, "blocked")
        allowed == BotsWithStatus(AI_BOTS, rules, "allowed")
    IN RobotsResult(TRUE, allowed \o blocked, missing, blocked,
                    \A b \in CITATION_BOTS : InSeq(b, allowed))

\* ClassifyRoster with any() in place of all() in the citation check
ClassifyRoster_any_citation(rules) ==
    LET missing == BotsWithStatus(AI_BOTS, rules, "missing")
        blocked == BotsWithStatus(AI_BOTS, rules, "blocked")
        allowed == BotsWithStatus(AI_BOTS, rules, "allowed")
    IN RobotsResult(TRUE, allowed, missing, blocked,
                    \E b \in CITATION_BOTS : InSeq(b, allowed))

\* What audit_robots_txt and _audit_robots_from_response do with the body of
\* a 200 response: parse, classify the roster, check the citation bots
ClassifyRoster(rules) ==
    LET missing == BotsWithStatus(AI_BOTS, rules, "missing")
        blocked == BotsWithStatus(AI_BOTS, rules, "blocked")
        allowed == BotsWithStatus(AI_BOTS, rules, "allowed")
    IN RobotsResult(TRUE, allowed, missing, blocked,
                    \A b \in CITATION_BOTS : InSeq(b, allowed))

\* A fetch outcome (r, err): err is set and r is None (status 0) on a
\* transport failure, else r is a response with a status code
Failure == [err |-> TRUE, status |-> 0]
Response(code) == [err |-> FALSE, status |-> code]

\* bool(r) of a requests.Response is r.ok: false from status 400 up
RequestsTruthy(r) == r.status # 0 /\ r.status < 400

\* audit_robots_txt with the bug of parsing any answer that is not an error,
\* without the check of the status code
audit_robots_txt_any_status(r, body) ==
    IF r.err \/ ~RequestsTruthy(r) THEN DefaultRobots
    ELSE ClassifyRoster(parse_robots_txt(body))

\* audit_robots_txt(base_url), given the outcome of its fetch and the body
audit_robots_txt(r, body) ==
    IF r.err \/ ~RequestsTruthy(r) THEN DefaultRobots
    ELSE IF r.status # 200 THEN DefaultRobots
    ELSE ClassifyRoster(parse_robots_txt(body))

\* _audit_robots_from_response(r): r is None (status 0) or an httpx response
audit_robots_from_response(r, body) ==
    IF r.status = 0 \/ r.status # 200 THEN DefaultRobots
    ELSE ClassifyRoster(parse_robots_txt(body))

----------------------------------------------------------------------------
(* The values of the variables a specification leaves alone.               *)

\* A homepage without any of the tags the checks look for
EmptyPage ==
    [scripts |-> <<>>, title |-> <<>>, description |-> <<>>, canonical |-> FALSE,
     og_title |-> FALSE, og_description |-> FALSE, og_image |-> FALSE,
     h1 |-> FALSE, words |-> <<>>, links |-> <<>>]

\* format_audit_json's per-check scores of a result without any finding
ZeroChecks ==
    [robots_txt |-> 0, llms_txt |-> 0, schema_jsonld |-> 0, meta_tags |-> 0, content |-> 0]

\* AuditResult(url=""), before anything is fetched
AuditIdle ==
    /\ home = [err |-> TRUE, status |-> 0]
    /\ page = EmptyPage
    /\ llms_resp = [err |-> TRUE, status |-> 0]
    /\ llms_text = <<>>
    /\ base_url = NoUrl
    /\ recommendations = <<>>
    /\ checks = ZeroChecks
    /\ found_types = <<>>
    /\ raw_schemas = <<>>
    /\ raised = ""

\* No answer served yet
NoAnswer == [from |-> "", url |-> NoUrl, at |-> 0, age |-> 0, data |-> <<>>]
\* Nothing generated, both caches empty, the clock at its start
StoreIdle ==
    /\ linked = <<>>
    /\ audit_cache = <<>>
    /\ file_cache = <<>>
    /\ now = 0
    /\ served = NoAnswer
    /\ log = <<>>

\* No fetch task, no sitemap call, no caller and no request yet
PipelineIdle ==
    /\ tasks = <<>>
    /\ completed = <<>>
    /\ responses = <<>>
    /\ sitemaps = <<>>
    /\ stack = <<>>
    /\ urls = <<>>
    /\ sent = 0
    /\ StoreIdle
    /\ entry = ""
    /\ url = NoUrl
    /\ guard = ""
    /\ cached = FALSE
    /\ requested = <<>>

----------------------------------------------------------------------------
(* The robots check as a state machine: a fetch outcome and a body, then   *)
(* one of the two handlers.                                                *)

\* status codes of the modelled responses
StatusCodes == {200, 301, 403, 404, 500}

\* the target of the modelled audits, normalised
Target == Url("https", "example.com", "")

SeqsUpTo(S, n) == UNION {[1..k -> S] : k \in 0..n}

Repeat(x, n) == [k \in 1..n |-> x]

ScoreIdle ==
    /\ llms = [found |-> FALSE, has_h1 |-> FALSE, has_description |-> FALSE,
               has_sections |-> FALSE, has_links |-> FALSE]
    /\ schema = [has_website |-> FALSE, has_webapp |-> FALSE, has_faq |-> FALSE]
    /\ meta = [has_title |-> FALSE, has_description |-> FALSE, has_canonical |-> FALSE,
               has_og_title |-> FALSE, has_og_description |-> FALSE, has_og_image |-> FALSE]
    /\ content = [has_h1 |-> FALSE, has_numbers |-> FALSE, has_links |-> FALSE]
    /\ score = 0
    /\ band = "critical"

Init ==
    /\ pc = "fetched"
    /\ \/ resp = Failure /\ text = <<>>
       \/ resp = Response(200) /\ text \in SeqsUpTo(LineSet, MaxLines)
       \/ /\ resp \in {Response(c) : c \in StatusCodes \ {200}}
          /\ text \in SeqsUpTo(LineSet, MaxErrLines)
    /\ agent_rules = <<>>
    /\ robots = DefaultRobots
    /\ bot_status = <<>>
    /\ ScoreIdle
    /\ AuditIdle
    /\ PipelineIdle

\* run_full_audit's call of audit_robots_txt
AuditRobotsTxt ==
    /\ pc = "fetched"
    /\ robots' = audit_robots_txt(resp, text)
    /\ agent_rules' = IF robots'.found THEN parse_robots_txt(text) ELSE <<>>
    /\ pc' = "done"
    /\ UNCHANGED <<resp, text, bot_status, scoreVars, auditVars, pipelineVars>>

\* run_full_audit_async's call of _audit_robots_from_response
AuditRobotsFromResponse ==
    /\ pc = "fetched"
    /\ robots' = audit_robots_from_response(resp, text)
    /\ agent_rules' = IF robots'.found THEN parse_robots_txt(text) ELSE <<>>
    /\ pc' = "done"
    /\ UNCHANGED <<resp, text, bot_status, scoreVars, auditVars, pipelineVars>>

Next == AuditRobotsTxt \/ AuditRobotsFromResponse

Spec == Init /\ [][Next]_vars

\* Robots files in which a stacked group (two consecutive User-agent lines)
\* is followed at once by `Disallow: /`, with any text before and after
InitStacked ==
    /\ pc = "fetched"
    /\ resp = Response(200)
    /\ \E pre \in SeqsUpTo(LineSet, MaxPrefix), suf \in SeqsUpTo(LineSet, MaxSuffix),
          ua1 \in AgentLines, ua2 \in AgentLines :
          text = pre \o <<ua1, ua2, Line("Disallow", "/", "")>> \o suf
    /\ agent_rules = <<>>
    /\ robots = DefaultRobots
    /\ bot_status = <<>>
    /\ ScoreIdle
    /\ AuditIdle
    /\ PipelineIdle

SpecStacked == InitStacked /\ [][Next]_vars

----------------------------------------------------------------------------
(* classify_bot on rule maps built directly, as its unit tests build them  *)

\* the paths of the rule maps
RulePaths == {"/", "/*", "", "/private/"}

\* the dict's keys in insertion order: every ordering of every set of tokens
KeyOrders ==
    {ks \in SeqsUpTo(AgentTokens, Cardinality(AgentTokens)) :
        \A i, j \in 1..Len(ks) : i # j => ks[i] # ks[j]}

\* The rule maps with at most n Allow / Disallow entries in all
RECURSIVE RuleMaps(_)
RuleMaps(n) ==
    IF n = 0 THEN {[i \in 1..Len(ks) |-> AgentRules(ks[i])] : ks \in KeyOrders}
    ELSE LET prev == RuleMaps(n - 1)
         IN prev \cup UNION {
              {[m EXCEPT ![i].allow = Append(@, p)] : i \in 1..Len(m), p \in RulePaths}
              \cup {[m EXCEPT ![i].disallow = Append(@, p)] : i \in 1..Len(m), p \in RulePaths}
              : m \in prev}

InitClassify ==
    /\ pc = "rules"
    /\ agent_rules \in RuleMaps(MaxRules)
    /\ bot_status = <<>>
    /\ resp = Failure
    /\ text = <<>>
    /\ robots = DefaultRobots
    /\ ScoreIdle
    /\ AuditIdle
    /\ PipelineIdle

\* classify_bot(bot, description, agent_rules) for a roster bot
ClassifyBot ==
    /\ pc = "rules"
    /\ \E b \in 1..Len(AI_BOTS) :
         bot_status' = <<classify_bot(AI_BOTS[b][1], AI_BOTS[b][2], agent_rules)>>
    /\ pc' = "classified"
    /\ UNCHANGED <<resp, text, agent_rules, robots, scoreVars, auditVars, pipelineVars>>

NextClassify == ClassifyBot

SpecClassify == InitClassify /\ [][NextClassify]_vars

----------------------------------------------------------------------------
(* core/audit.py: score and band                                           *)

\* SCORING with the two robots bonuses swapped
SCORING_swapped ==
    [robots_found |-> 5, robots_citation_ok |-> 8, robots_some_allowed |-> 15,
     llms_found |-> 10, llms_h1 |-> 3, llms_sections |-> 4, llms_links |-> 3,
     schema_website |-> 10, schema_faq |-> 10, schema_webapp |-> 5,
     meta_title |-> 5, meta_description |-> 8, meta_canonical |-> 3, meta_og |-> 4,
     content_h1 |-> 4, content_numbers |-> 6, content_links |-> 5]

\* models/config.py SCORING
SCORING ==
    [robots_found |-> 5, robots_citation_ok |-> 15, robots_some_allowed |-> 8,
     llms_found |-> 10, llms_h1 |-> 3, llms_sections |-> 4, llms_links |-> 3,
     schema_website |-> 10, schema_faq |-> 10, schema_webapp |-> 5,
     meta_title |-> 5, meta_description |-> 8, meta_canonical |-> 3, meta_og |-> 4,
     content_h1 |-> 4, content_numbers |-> 6, content_links |-> 5]

\* SCORE_BANDS with a gap at 71
SCORE_BANDS_gap ==
    << <<"excellent", 91, 100>>, <<"good", 72, 90>>,
       <<"foundation", 41, 70>>, <<"critical", 0, 40>> >>

\* models/config.py SCORE_BANDS, in dict order: name, low, high
SCORE_BANDS ==
    << <<"excellent", 91, 100>>, <<"good", 71, 90>>,
       <<"foundation", 41, 70>>, <<"critical", 0, 40>> >>

\* RobotsPoints with `if` in place of `elif`: both bonuses can be added
RobotsPoints_both_bonuses(r) ==
    (IF r.found THEN SCORING.robots_found ELSE 0)
    + (IF r.citation_bots_ok THEN SCORING.robots_citation_ok ELSE 0)
    + (IF r.bots_allowed # <<>> THEN SCORING.robots_some_allowed ELSE 0)

\* compute_geo_score, the robots.txt block: `if found`, then
\* `if citation_bots_ok ... elif bots_allowed`
RobotsPoints(r) ==
    (IF r.found THEN SCORING.robots_found ELSE 0)
    + (IF r.citation_bots_ok THEN SCORING.robots_citation_ok
       ELSE IF r.bots_allowed # <<>> THEN SCORING.robots_some_allowed
       ELSE 0)

\* compute_geo_score, the llms.txt block: everything under `if llms.found`
LlmsPoints(l) ==
    IF l.found
    THEN SCORING.llms_found
         + (IF l.has_h1 THEN SCORING.llms_h1 ELSE 0)
         + (IF l.has_sections THEN SCORING.llms_sections ELSE 0)
         + (IF l.has_links THEN SCORING.llms_links ELSE 0)
    ELSE 0

\* compute_geo_score, the schema block
SchemaPoints(s) ==
    (IF s.has_website THEN SCORING.schema_website ELSE 0)
    + (IF s.has_faq THEN SCORING.schema_faq ELSE 0)
    + (IF s.has_webapp THEN SCORING.schema_webapp ELSE 0)

\* MetaPoints without the points for the title
MetaPoints_no_title(m) ==
    (IF m.has_description THEN SCORING.meta_description ELSE 0)
    + (IF m.has_canonical THEN SCORING.meta_canonical ELSE 0)
    + (IF m.has_og_title /\ m.has_og_description THEN SCORING.meta_og ELSE 0)

\* compute_geo_score, the meta tags block
MetaPoints(m) ==
    (IF m.has_title THEN SCORING.meta_title ELSE 0)
    + (IF m.has_description THEN SCORING.meta_description ELSE 0)
    + (IF m.has_canonical THEN SCORING.meta_canonical ELSE 0)
    + (IF m.has_og_title /\ m.has_og_description THEN SCORING.meta_og ELSE 0)

\* ContentPoints without the points for external links
ContentPoints_no_links(c) ==
    (IF c.has_h1 THEN SCORING.content_h1 ELSE 0)
    + (IF c.has_numbers THEN SCORING.content_numbers ELSE 0)

\* compute_geo_score, the content block
ContentPoints(c) ==
    (IF c.has_h1 THEN SCORING.content_h1 ELSE 0)
    + (IF c.has_numbers THEN SCORING.content_numbers ELSE 0)
    + (IF c.has_links THEN SCORING.content_links ELSE 0)

\* The local `score` of compute_geo_score before the final min
ScoreSum(r, l, s, m, c) ==
    RobotsPoints(r) + LlmsPoints(l) + SchemaPoints(s) + MetaPoints(m) + ContentPoints(c)

compute_geo_score(r, l, s, m, c) ==
    IF ScoreSum(r, l, s, m, c) < 100 THEN ScoreSum(r, l, s, m, c) ELSE 100

\* get_score_band's loop over the bands from position i on
RECURSIVE FirstBand(_, _)
FirstBand(sc, i) ==
    IF i > Len(SCORE_BANDS) THEN "critical"
    ELSE IF SCORE_BANDS[i][2] <= sc /\ sc <= SCORE_BANDS[i][3] THEN SCORE_BANDS[i][1]
    ELSE FirstBand(sc, i + 1)

get_score_band(sc) == FirstBand(sc, 1)

\* The recommendation strings of build_recommendations, in the order of its
\* `if` statements; the second is an f-string ending in base_url
RecRobots == <<"Update robots.txt with all AI bots (see SKILL.md)">>
RecLlms(bu) == <<"Create /llms.txt: ./geo scripts/generate_llms_txt.py --base-url ", bu>>
RecWebSite == <<"Add WebSite JSON-LD schema">>
RecFaq == <<"Add FAQPage schema with frequently asked questions">>
RecDescription == <<"Add optimized meta description">>
RecNumbers == <<"Add concrete numerical statistics (+40% AI visibility)">>
RecLinks == <<"Cite authoritative sources with external links">>

\* build_recommendations with the two schema recommendations in the other
\* order
build_recommendations_faq_first(bu, r, l, s, m, c) ==
    (IF ~r.citation_bots_ok THEN <<RecRobots>> ELSE <<>>)
    \o (IF ~l.found THEN <<RecLlms(bu)>> ELSE <<>>)
    \o (IF ~s.has_faq THEN <<RecFaq>> ELSE <<>>)
    \o (IF ~s.has_website THEN <<RecWebSite>> ELSE <<>>)
    \o (IF ~m.has_description THEN <<RecDescription>> ELSE <<>>)
    \o (IF ~c.has_numbers THEN <<RecNumbers>> ELSE <<>>)
    \o (IF ~c.has_links THEN <<RecLinks>> ELSE <<>>)

\* build_recommendations(base_url, robots, llms, schema, meta, content): one
\* append per `if`, in source order
build_recommendations(bu, r, l, s, m, c) ==
    (IF ~r.citation_bots_ok THEN <<RecRobots>> ELSE <<>>)
    \o (IF ~l.found THEN <<RecLlms(bu)>> ELSE <<>>)
    \o (IF ~s.has_website THEN <<RecWebSite>> ELSE <<>>)
    \o (IF ~s.has_faq THEN <<RecFaq>> ELSE <<>>)
    \o (IF ~m.has_description THEN <<RecDescription>> ELSE <<>>)
    \o (IF ~c.has_numbers THEN <<RecNumbers>> ELSE <<>>)
    \o (IF ~c.has_links THEN <<RecLinks>> ELSE <<>>)

----------------------------------------------------------------------------
(* cli/formatters.py: the per-check scores of format_audit_json            *)

\* _robots_score without the branch for some bots allowed
robots_score_all_or_nothing(r) ==
    IF r.citation_bots_ok THEN SCORING.robots_found + SCORING.robots_citation_ok
    ELSE IF r.found THEN SCORING.robots_found
    ELSE 0

\* _robots_score: the first of citation_bots_ok, bots_allowed, found
robots_score(r) ==
    IF r.citation_bots_ok THEN SCORING.robots_found + SCORING.robots_citation_ok
    ELSE IF r.bots_allowed # <<>> THEN SCORING.robots_found + SCORING.robots_some_allowed
    ELSE IF r.found THEN SCORING.robots_found
    ELSE 0

\* _llms_score: four independent terms
llms_score(l) ==
    (IF l.found THEN SCORING.llms_found ELSE 0)
    + (IF l.has_h1 THEN SCORING.llms_h1 ELSE 0)
    + (IF l.has_sections THEN SCORING.llms_sections ELSE 0)
    + (IF l.has_links THEN SCORING.llms_links ELSE 0)

\* _schema_score
schema_score(s) ==
    (IF s.has_website THEN SCORING.schema_website ELSE 0)
    + (IF s.has_faq THEN SCORING.schema_faq ELSE 0)
    + (IF s.has_webapp THEN SCORING.schema_webapp ELSE 0)

\* _meta_score
meta_score(m) ==
    (IF m.has_title THEN SCORING.meta_title ELSE 0)
    + (IF m.has_description THEN SCORING.meta_description ELSE 0)
    + (IF m.has_canonical THEN SCORING.meta_canonical ELSE 0)
    + (IF m.has_og_title /\ m.has_og_description THEN SCORING.meta_og ELSE 0)

\* _content_score
content_score(c) ==
    (IF c.has_h1 THEN SCORING.content_h1 ELSE 0)
    + (IF c.has_numbers THEN SCORING.content_numbers ELSE 0)
    + (IF c.has_links THEN SCORING.content_links ELSE 0)

\* The "score" entries of format_audit_json's "checks"
format_audit_json(r, l, s, m, c) ==
    [robots_txt |-> robots_score(r), llms_txt |-> llms_score(l),
     schema_jsonld |-> schema_score(s), meta_tags |-> meta_score(m),
     content |-> content_score(c)]

----------------------------------------------------------------------------
(* Scoring as a state machine: the five results of one audit, any          *)
(* combination of their flags, then the score and its band.                *)

\* the values of a record with the fields of S, each a boolean
Flags(S) == [S -> BOOLEAN]

RobotsResults ==
    {RobotsResult(f, a, <<>>, <<>>, ok) :
        f \in BOOLEAN, ok \in BOOLEAN, a \in {<<>>, <<"GPTBot">>}}
LlmsResults == Flags({"found", "has_h1", "has_description", "has_sections", "has_links"})
SchemaResults == Flags({"has_website", "has_webapp", "has_faq"})
MetaResults ==
    Flags({"has_title", "has_description", "has_canonical",
           "has_og_title", "has_og_description", "has_og_image"})
ContentResults == Flags({"has_h1", "has_numbers", "has_links"})

RobotsIdle ==
    /\ resp = Failure
    /\ text = <<>>
    /\ agent_rules = <<>>
    /\ bot_status = <<>>

\* AuditResult(url): the dataclass defaults
InitScore ==
    /\ pc = "audit"
    /\ robots = DefaultRobots
    /\ RobotsIdle
    /\ ScoreIdle
    /\ AuditIdle
    /\ PipelineIdle

\* run_full_audit from the sub-audits on: five results, then
\* compute_geo_score and get_score_band
ScoreAudit ==
    /\ pc = "audit"
    /\ robots' \in RobotsResults
    /\ llms' \in LlmsResults
    /\ schema' \in SchemaResults
    /\ meta' \in MetaResults
    /\ content' \in ContentResults
    /\ score' = compute_geo_score(robots', llms', schema', meta', content')
    /\ band' = get_score_band(score')
    /\ base_url' = Target
    /\ recommendations' =
         build_recommendations(base_url', robots', llms', schema', meta', content')
    /\ pc' = "scored"
    /\ UNCHANGED <<resp, text, agent_rules, bot_status, inputVars, checks,
                   found_types, raw_schemas, raised, pipelineVars>>

NextScore == ScoreAudit

SpecScore == InitScore /\ [][NextScore]_vars

\* An AuditResult built field by field, as the formatter's tests build it
InitFormat ==
    /\ pc = "result"
    /\ robots = DefaultRobots
    /\ RobotsIdle
    /\ ScoreIdle
    /\ AuditIdle
    /\ PipelineIdle

\* format_audit_json(result) on an AuditResult of any field values
FormatAuditJson ==
    /\ pc = "result"
    /\ robots' \in RobotsResults
    /\ llms' \in LlmsResults
    /\ schema' \in SchemaResults
    /\ meta' \in MetaResults
    /\ content' \in ContentResults
    /\ checks' = format_audit_json(robots', llms', schema', meta', content')
    /\ pc' = "formatted"
    /\ UNCHANGED <<resp, text, agent_rules, bot_status, score, band, inputVars,
                   base_url, recommendations, found_types, raw_schemas, raised,
                   pipelineVars>>

NextFormat == FormatAuditJson

SpecFormat == InitFormat /\ [][NextFormat]_vars

\* get_score_band on any integer around the range of scores
InitBand ==
    /\ pc = "score"
    /\ score \in (0 - MaxOutside)..(100 + MaxOutside)
    /\ band = "critical"
    /\ llms = [found |-> FALSE, has_h1 |-> FALSE, has_description |-> FALSE,
               has_sections |-> FALSE, has_links |-> FALSE]
    /\ schema = [has_website |-> FALSE, has_webapp |-> FALSE, has_faq |-> FALSE]
    /\ meta = [has_title |-> FALSE, has_description |-> FALSE, has_canonical |-> FALSE,
               has_og_title |-> FALSE, has_og_description |-> FALSE, has_og_image |-> FALSE]
    /\ content = [has_h1 |-> FALSE, has_numbers |-> FALSE, has_links |-> FALSE]
    /\ robots = DefaultRobots
    /\ RobotsIdle
    /\ AuditIdle
    /\ PipelineIdle

GetScoreBand ==
    /\ pc = "score"
    /\ band' = get_score_band(score)
    /\ pc' = "banded"
    /\ UNCHANGED <<robotsVars, llms, schema, meta, content, score, auditVars, pipelineVars>>

NextBand == GetScoreBand

SpecBand == InitBand /\ [][NextBand]_vars

----------------------------------------------------------------------------
(* core/audit.py: audit_schema.  A JSON-LD script block is                 *)
(*     [kind, islist, items]                                               *)
(* kind "blank": no text or white space only; "invalid": json.loads        *)
(* raises JSONDecodeError; "value": it parses, to a list of items when     *)
(* islist and to the single item items[1] otherwise.  An item is a JSON    *)
(* object with its "@type" member, or a JSON value that is no object.      *)

TypeAbsent == [kind |-> "absent", names |-> <<>>]
TypeString(t) == [kind |-> "string", names |-> <<t>>]
TypeList(ts) == [kind |-> "list", names |-> ts]

Object(type) == [isobj |-> TRUE, type |-> type]
\* a number, a string, true, false or null
Scalar == [isobj |-> FALSE, type |-> TypeAbsent]

BlankBlock == [kind |-> "blank", islist |-> FALSE, items |-> <<>>]
InvalidBlock == [kind |-> "invalid", islist |-> FALSE, items |-> <<>>]
ValueBlock(item) == [kind |-> "value", islist |-> FALSE, items |-> <<item>>]
ArrayBlock(items) == [kind |-> "value", islist |-> TRUE, items |-> items]

\* SchemaResult(), with the exception that ended the call ("" when none)
DefaultSchema ==
    [found_types |-> <<>>, has_website |-> FALSE, has_webapp |-> FALSE,
     has_faq |-> FALSE, raw_schemas |-> <<>>, raised |-> ""]

\* schema.get("@type", "unknown"), made a list
SchemaTypes(item) ==
    IF item.type.kind = "absent" THEN <<"unknown">> ELSE item.type.names

\* The loop `for t in schema_types`
RECURSIVE TypeLoop(_, _)
TypeLoop(acc, types) ==
    IF types = <<>> THEN acc
    ELSE LET t == Head(types)
         IN TypeLoop([acc EXCEPT !.found_types = Append(@, t),
                                 !.has_website = @ \/ t = "WebSite",
                                 !.has_webapp = @ \/ t = "WebApplication",
                                 !.has_faq = @ \/ t = "FAQPage"],
                     Tail(types))

\* AddSchema with the raw schema appended once per type string
AddSchema_raw_per_type(acc, item) ==
    TypeLoop([acc EXCEPT !.raw_schemas =
                @ \o [k \in 1..Len(SchemaTypes(item)) |-> item]],
             SchemaTypes(item))

\* The body of `for schema in schemas` for an object: the raw schema is
\* appended once, then its types
AddSchema(acc, item) ==
    TypeLoop([acc EXCEPT !.raw_schemas = Append(@, item)], SchemaTypes(item))

\* The loop `for schema in schemas`: schema.get on a value that is no
\* object raises AttributeError, which the `except json.JSONDecodeError`
\* does not catch
RECURSIVE ItemLoop(_, _)
ItemLoop(acc, items) ==
    IF items = <<>> THEN acc
    ELSE IF ~Head(items).isobj THEN [acc EXCEPT !.raised = "AttributeError"]
    ELSE ItemLoop(AddSchema(acc, Head(items)), Tail(items))

\* The loop `for script in scripts`
RECURSIVE ScriptLoop(_, _)
ScriptLoop(acc, scripts) ==
    IF scripts = <<>> \/ acc.raised # "" THEN acc
    ELSE LET b == Head(scripts)
         IN IF b.kind = "value"
            THEN ScriptLoop(ItemLoop(acc, b.items), Tail(scripts))
            ELSE ScriptLoop(acc, Tail(scripts))

\* audit_schema(soup, url): the result, or the exception it raises
audit_schema(pg) == ScriptLoop(DefaultSchema, pg.scripts)

\* the has_* fields of a SchemaResult
SchemaFlags(sr) ==
    [has_website |-> sr.has_website, has_webapp |-> sr.has_webapp, has_faq |-> sr.has_faq]

\* The script blocks of the modelled homepages
Blocks ==
    { BlankBlock, InvalidBlock,
      ValueBlock(Object(TypeAbsent)),
      ValueBlock(Object(TypeString("WebSite"))),
      ValueBlock(Object(TypeString("FAQPage"))),
      ValueBlock(Object(TypeList(<<"WebSite", "WebApplication">>))),
      ValueBlock(Object(TypeList(<<>>))),
      ValueBlock(Scalar),
      ArrayBlock(<<>>),
      ArrayBlock(<<Object(TypeString("WebSite")), Object(TypeString("FAQPage"))>>),
      ArrayBlock(<<Object(TypeString("WebApplication")), Scalar>>) }

\* A homepage, known by its JSON-LD script blocks
InitSchema ==
    /\ pc = "page"
    /\ page \in {[EmptyPage EXCEPT !.scripts = sc] : sc \in SeqsUpTo(Blocks, MaxScripts)}
    /\ home = [err |-> FALSE, status |-> 200]
    /\ llms_resp = [err |-> TRUE, status |-> 0]
    /\ llms_text = <<>>
    /\ base_url = Target
    /\ recommendations = <<>>
    /\ checks = ZeroChecks
    /\ found_types = <<>>
    /\ raw_schemas = <<>>
    /\ raised = ""
    /\ robots = DefaultRobots
    /\ RobotsIdle
    /\ ScoreIdle
    /\ PipelineIdle

\* audit_schema(soup, base_url)
AuditSchema ==
    /\ pc = "page"
    /\ LET sr == audit_schema(page)
       IN /\ raised' = sr.raised
          /\ schema' = IF sr.raised = "" THEN SchemaFlags(sr) ELSE schema
          /\ found_types' = IF sr.raised = "" THEN sr.found_types ELSE found_types
          /\ raw_schemas' = IF sr.raised = "" THEN sr.raw_schemas ELSE raw_schemas
    /\ pc' = "schema"
    /\ UNCHANGED <<robotsVars, llms, meta, content, score, band, inputVars,
                   base_url, recommendations, checks, pipelineVars>>

NextSchema == AuditSchema

SpecSchema == InitSchema /\ [][NextSchema]_vars

----------------------------------------------------------------------------
(* core/audit.py: the llms.txt check.  A line of llms.txt is known by the  *)
(* characters it starts with, up to and with the first space, and by       *)
(* whether it holds a markdown link [label](url).                          *)

LlmsLine(start, link) == [start |-> start, link |-> link]

\* line.startswith(prefix), for a prefix that ends in its only space
StartsWith(line, prefix) == line.start = prefix

LlmsTxtResult(found, h1, description, sections, links) ==
    [found |-> found, has_h1 |-> h1, has_description |-> description,
     has_sections |-> sections, has_links |-> links]

\* LlmsTxtResult()
DefaultLlms == LlmsTxtResult(FALSE, FALSE, FALSE, FALSE, FALSE)

\* What both llms.txt handlers do with the body of a 200 response
CheckLlms(lines) ==
    LlmsTxtResult(TRUE,
                  \E i \in 1..Len(lines) : StartsWith(lines[i], "# "),
                  \E i \in 1..Len(lines) : StartsWith(lines[i], "> "),
                  \E i \in 1..Len(lines) : StartsWith(lines[i], "## "),
                  \E i \in 1..Len(lines) : lines[i].link)

\* audit_llms_txt(base_url), given the outcome of its fetch and the body
audit_llms_txt(r, lines) ==
    IF r.err \/ ~RequestsTruthy(r) THEN DefaultLlms
    ELSE IF r.status # 200 THEN DefaultLlms
    ELSE CheckLlms(lines)

\* _audit_llms_from_response(r)
audit_llms_from_response(r, lines) ==
    IF r.status = 0 \/ r.status # 200 THEN DefaultLlms
    ELSE CheckLlms(lines)

----------------------------------------------------------------------------
(* core/audit.py: the meta tag and content checks.  Of a homepage the      *)
(* model keeps: its JSON-LD script blocks; the text of its <title> (<<>>   *)
(* when there is no tag); the length of the stripped content of its meta   *)
(* description (<<>> when there is no tag); whether canonical and the og   *)
(* tags are present with a value; whether there is an <h1>; the words of   *)
(* its text; the hrefs of its links.                                       *)

\* str.strip() on the texts the model uses
Strip(str) == IF str = "  " THEN "" ELSE str

MetaResult(title, description, canonical, og_title, og_description, og_image) ==
    [has_title |-> title, has_description |-> description, has_canonical |-> canonical,
     has_og_title |-> og_title, has_og_description |-> og_description,
     has_og_image |-> og_image]

audit_meta_tags(pg) ==
    MetaResult(pg.title # <<>> /\ Strip(pg.title[1]) # "",
               pg.description # <<>> /\ pg.description[1] > 0,
               pg.canonical, pg.og_title, pg.og_description, pg.og_image)

\* The number of matches of the numbers regex in a word: digits and a
\* percent or currency sign, a decimal number, or an integer of 3 digits
\* or more
NumberMatches(word) == IF word \in {"42%", "3.14", "2024", "1200"} THEN 1 ELSE 0

RECURSIVE CountNumbers(_)
CountNumbers(words) ==
    IF words = <<>> THEN 0 ELSE NumberMatches(Head(words)) + CountNumbers(Tail(words))

\* An absolute link and a relative one
Href(host, path) == [http |-> TRUE, host |-> host, path |-> path]
RelativeHref(path) == [http |-> FALSE, host |-> "", path |-> path]

\* `sub in str` on the texts the model uses
Contains(str, sub) ==
    \/ str = sub
    \/ sub = "example.com" /\ str \in {"www.example.com", "/?ref=example.com"}

\* `base_domain in link["href"]`: the domain is a substring of the href,
\* in the host or anywhere after it
InHref(domain, href) == Contains(href.host, domain) \/ Contains(href.path, domain)

\* link["href"].startswith("http") and base_domain not in link["href"]
IsExternal(href, domain) == href.http /\ ~InHref(domain, href)

ContentResult(h1, numbers, links) ==
    [has_h1 |-> h1, has_numbers |-> numbers, has_links |-> links]

\* audit_content_quality asking for more than three numbers
audit_content_quality_over_three(pg, bu) ==
    ContentResult(pg.h1,
                  CountNumbers(pg.words) > 3,
                  \E i \in 1..Len(pg.links) : IsExternal(pg.links[i], bu.host))

audit_content_quality(pg, bu) ==
    ContentResult(pg.h1,
                  CountNumbers(pg.words) >= 3,
                  \E i \in 1..Len(pg.links) : IsExternal(pg.links[i], bu.host))

----------------------------------------------------------------------------
(* core/audit.py: the orchestrators.  An AuditResult is the record of the  *)
(* fields the model follows, with `raised`: the exception that left the    *)
(* orchestrator in place of a result ("" when it returned).                *)

\* AuditResult(url=base_url)
DefaultAudit(bu) ==
    [url |-> bu, score |-> 0, band |-> "critical", robots |-> DefaultRobots,
     llms |-> DefaultLlms, schema |-> DefaultSchema,
     meta |-> MetaResult(FALSE, FALSE, FALSE, FALSE, FALSE, FALSE),
     content |-> ContentResult(FALSE, FALSE, FALSE),
     recommendations |-> <<>>, http_status |-> 0, raised |-> ""]

\* The error text of a fetch outcome: fetch_url's message, or None
ErrText(r) == IF r.err THEN "Connection failed" ELSE "None"

\* f"Unable to reach {base_url}: {err}"
RecUnreachable(bu, err) == <<"Unable to reach ", bu, ": ", err>>

\* The part the two orchestrators share, from BeautifulSoup(...) on, given
\* the robots and llms results: the three checks of the page, the score,
\* the band, the recommendations
AuditPage(bu, h, pg, rob, ll) ==
    LET sch == audit_schema(pg)
        met == audit_meta_tags(pg)
        con == audit_content_quality(pg, bu)
        sc == compute_geo_score(rob, ll, sch, met, con)
    IN IF sch.raised # "" THEN [DefaultAudit(bu) EXCEPT !.raised = sch.raised]
       ELSE [url |-> bu, score |-> sc, band |-> get_score_band(sc), robots |-> rob,
             llms |-> ll, schema |-> sch, meta |-> met, content |-> con,
             recommendations |-> build_recommendations(bu, rob, ll, sch, met, con),
             http_status |-> h.status, raised |-> ""]

\* run_full_audit with the recommendation list of an unreachable homepage
\* left empty
run_full_audit_silent(bu, h, pg, r, body, lr, lbody) ==
    IF h.err \/ ~RequestsTruthy(h) THEN DefaultAudit(bu)
    ELSE AuditPage(bu, h, pg, audit_robots_txt(r, body), audit_llms_txt(lr, lbody))

\* run_full_audit(url) without the cache, given the normalised URL and what
\* the three fetches answer: (h, pg) the homepage, (r, body) robots.txt,
\* (lr, lbody) llms.txt
run_full_audit(bu, h, pg, r, body, lr, lbody) ==
    IF h.err \/ ~RequestsTruthy(h)
    THEN [DefaultAudit(bu) EXCEPT !.recommendations = <<RecUnreachable(bu, ErrText(h))>>]
    ELSE AuditPage(bu, h, pg, audit_robots_txt(r, body), audit_llms_txt(lr, lbody))

\* The requests run_full_audit issues, in order: the homepage, then the
\* two files once the homepage answered
Request(u, depth) == [url |-> u, depth |-> depth]

RequestsOfAudit(bu, h) ==
    IF h.err \/ ~RequestsTruthy(h) THEN <<Request(bu, 0)>>
    ELSE <<Request(bu, 0), Request(urljoin(bu, "/robots.txt"), 0),
           Request(urljoin(bu, "/llms.txt"), 0)>>

\* An entry of fetch_urls_async's result dict: the URL and the pair
\* (response, error) as a fetch outcome
ResponseEntry(u, r) == [url |-> u, r |-> r]

\* responses.get(u, default): the outcome stored for u
RECURSIVE ResponsesGet(_, _, _)
ResponsesGet(resps, u, default) ==
    IF resps = <<>> THEN default
    ELSE IF Head(resps).url = u THEN Head(resps).r
    ELSE ResponsesGet(Tail(resps), u, default)

\* bool(r) of an httpx response or of None: only None is false
HttpxTruthy(r) == r.status # 0

\* run_full_audit_async(url) from the dict fetch_urls_async returned on
\* (the bodies are those of the homepage, robots.txt and llms.txt)
run_full_audit_async(bu, resps, pg, body, lbody) ==
    LET h == ResponsesGet(resps, bu, Failure)
        r == ResponsesGet(resps, urljoin(bu, "/robots.txt"), Failure)
        lr == ResponsesGet(resps, urljoin(bu, "/llms.txt"), Failure)
    IN IF h.err \/ ~HttpxTruthy(h)
       THEN [DefaultAudit(bu) EXCEPT !.recommendations = <<RecUnreachable(bu, ErrText(h))>>]
       ELSE AuditPage(bu, h, pg, audit_robots_from_response(r, body),
                      audit_llms_from_response(lr, lbody))

----------------------------------------------------------------------------
(* A whole audit as a state machine: the target, what its homepage,        *)
(* robots.txt and llms.txt answer, then one of the two orchestrators.      *)

\* The lines of doc whose positions are in S, in order
RECURSIVE Pick(_, _, _)
Pick(doc, S, n) ==
    IF n = 0 THEN <<>>
    ELSE Pick(doc, S, n - 1) \o (IF n \in S THEN <<doc[n]>> ELSE <<>>)

\* An llms.txt with all four parts: H1, blockquote, H2 and a link
LlmsDoc ==
    << LlmsLine("# ", FALSE), LlmsLine("> ", FALSE), LlmsLine("## ", FALSE),
       LlmsLine("- ", TRUE) >>

\* The modelled llms.txt bodies: LlmsDoc with any of its lines left out, and
\* a title written without the space after the hash
LlmsFiles ==
    {Pick(LlmsDoc, S, Len(LlmsDoc)) : S \in SUBSET (1..Len(LlmsDoc))}
    \cup { <<LlmsLine("#Title", FALSE)>> }

\* robots.txt bodies: GPTBot and ClaudeBot allowed by name, the same with
\* everybody else blocked, the same with everybody else allowed, everybody
\* allowed, and an empty file
AllowNamed ==
    << Line("User-agent", "GPTBot", ""), Line("Allow", "/", ""),
       Line("User-agent", "ClaudeBot", ""), Line("Allow", "/", "") >>
RobotsFiles ==
    { AllowNamed,
      AllowNamed \o <<Line("User-agent", "*", ""), Line("Disallow", "/", "")>>,
      AllowNamed \o <<Line("User-agent", "*", ""), Line("Allow", "/", "")>>,
      <<Line("User-agent", "*", ""), Line("Allow", "/", "")>>,
      <<>> }

\* <head> variants: nothing; a blank title and a blank description; title
\* and a description of 150 characters; these with canonical and all og tags
Heads ==
    { [title |-> <<>>, description |-> <<>>, canonical |-> FALSE, og |-> FALSE],
      [title |-> <<"  ">>, description |-> <<0>>, canonical |-> FALSE, og |-> FALSE],
      [title |-> <<"Example Site">>, description |-> <<150>>, canonical |-> FALSE, og |-> FALSE],
      [title |-> <<"Example Site">>, description |-> <<150>>, canonical |-> TRUE, og |-> TRUE] }

\* <body> variants: nothing; an h1, three numbers and an external link; an
\* h1, two numbers and links that are relative or name the own domain; no
\* h1, four numbers and no link
Bodies ==
    { [h1 |-> FALSE, words |-> <<>>, links |-> <<>>],
      [h1 |-> TRUE, words |-> <<"2024", "42%", "words", "3.14">>,
       links |-> <<Href("other.org", "/study")>>],
      [h1 |-> TRUE, words |-> <<"12", "2024", "words", "42%">>,
       links |-> <<RelativeHref("/contact"), Href("www.example.com", "/about"),
                   Href("other.org", "/?ref=example.com")>>],
      [h1 |-> FALSE, words |-> <<"2024", "42%", "3.14", "1200">>, links |-> <<>>] }

\* The JSON-LD script blocks of the audited homepages
ScriptLists ==
    { <<>>, <<BlankBlock>>, <<InvalidBlock>>,
      <<ValueBlock(Object(TypeString("WebSite")))>>,
      <<InvalidBlock, ValueBlock(Object(TypeString("WebSite")))>>,
      <<ValueBlock(Object(TypeString("FAQPage"))),
        ValueBlock(Object(TypeList(<<"WebSite", "WebApplication">>)))>>,
      <<ValueBlock(Scalar)>>,
      <<ValueBlock(Object(TypeString("WebSite"))),
        ArrayBlock(<<Object(TypeString("FAQPage")), Scalar>>)>> }

PageOf(sc, hd, bd) ==
    [scripts |-> sc, title |-> hd.title, description |-> hd.description,
     canonical |-> hd.canonical, og_title |-> hd.og, og_description |-> hd.og,
     og_image |-> hd.og, h1 |-> bd.h1, words |-> bd.words, links |-> bd.links]

Pages == {PageOf(sc, hd, bd) : sc \in ScriptLists, hd \in Heads, bd \in Bodies}

\* A homepage with a WebSite schema, a title, a description, an H1, numbers
\* and an external link
SamplePage ==
    PageOf(<<ValueBlock(Object(TypeString("WebSite")))>>,
           [title |-> <<"Example Site">>, description |-> <<150>>,
            canonical |-> FALSE, og |-> FALSE],
           [h1 |-> TRUE, words |-> <<"2024", "42%", "words", "3.14">>,
            links |-> <<Href("other.org", "/study")>>])

\* The page a server sends with an error status, or with 200 for a page it
\* does not have: a title and an h1, nothing else
ErrorPage ==
    [EmptyPage EXCEPT !.title = <<"Not Found">>, !.h1 = TRUE]

\* The target as typed: `example.com/`
TypedTarget == [scheme |-> "", userinfo |-> FALSE, host |-> "example.com", path |-> "/"]

InitAudit ==
    /\ pc = "start"
    /\ url = TypedTarget
    /\ \/ home = Failure /\ page = EmptyPage
       \/ home = Response(200) /\ page \in Pages \cup {ErrorPage}
       \/ home = Response(404) /\ page \in {EmptyPage, ErrorPage}
    /\ \/ resp \in {Failure, Response(404)} /\ text = <<>>
       \/ resp = Response(200) /\ text \in RobotsFiles
    /\ \/ llms_resp \in {Failure, Response(404)} /\ llms_text = <<>>
       \/ llms_resp = Response(200) /\ llms_text \in LlmsFiles
    /\ agent_rules = <<>>
    /\ robots = DefaultRobots
    /\ bot_status = <<>>
    /\ ScoreIdle
    /\ base_url = NoUrl
    /\ recommendations = <<>>
    /\ checks = ZeroChecks
    /\ found_types = <<>>
    /\ raw_schemas = <<>>
    /\ raised = ""
    /\ tasks = <<>>
    /\ completed = <<>>
    /\ responses = <<>>
    /\ sitemaps = <<>>
    /\ stack = <<>>
    /\ urls = <<>>
    /\ sent = 0
    /\ StoreIdle
    /\ entry = ""
    /\ guard = ""
    /\ cached = FALSE
    /\ requested = <<>>

\* The AuditResult res (or the exception in its place) becomes the state
Returned(res) ==
    /\ base_url' = res.url
    /\ robots' = res.robots
    /\ llms' = res.llms
    /\ schema' = SchemaFlags(res.schema)
    /\ found_types' = res.schema.found_types
    /\ raw_schemas' = res.schema.raw_schemas
    /\ meta' = res.meta
    /\ content' = res.content
    /\ score' = res.score
    /\ band' = res.band
    /\ recommendations' = res.recommendations
    /\ raised' = res.raised
    /\ agent_rules' = IF res.robots.found THEN parse_robots_txt(text) ELSE <<>>

\* run_full_audit(url): normalise, fetch the homepage, run the five checks
\* (two of them fetch), score, band, recommendations
RunFullAudit ==
    /\ pc = "start"
    /\ entry' = "run_full_audit"
    /\ Returned(run_full_audit(NormaliseUrl(url), home, page, resp, text,
                               llms_resp, llms_text))
    /\ requested' = RequestsOfAudit(NormaliseUrl(url), home)
    /\ pc' = "audited"
    /\ UNCHANGED <<resp, text, bot_status, inputVars, checks, asyncVars, sitemapVars, storeVars,
                   url, guard, cached>>

\* The dict fetch_urls_async returns for the three URLs, in the order of
\* the list
FetchedAll(bu, h, r, lr) ==
    << ResponseEntry(bu, h), ResponseEntry(urljoin(bu, "/robots.txt"), r),
       ResponseEntry(urljoin(bu, "/llms.txt"), lr) >>

\* run_full_audit_async(url): normalise, fetch the three URLs together,
\* run the five checks on the answers, score, band, recommendations
RunFullAuditAsync ==
    /\ pc = "start"
    /\ entry' = "run_full_audit_async"
    /\ responses' = FetchedAll(NormaliseUrl(url), home, resp, llms_resp)
    /\ Returned(run_full_audit_async(NormaliseUrl(url), responses', page, text, llms_text))
    /\ requested' = [i \in 1..3 |-> Request(responses'[i].url, 0)]
    /\ pc' = "audited"
    /\ UNCHANGED <<resp, text, bot_status, inputVars, checks, tasks, completed,
                   sitemapVars, storeVars, url, guard, cached>>

NextAudit == RunFullAudit \/ RunFullAuditAsync

SpecAudit == InitAudit /\ [][NextAudit]_vars

----------------------------------------------------------------------------
(* validate_public_url: the anti-SSRF guard                                *)

\* socket.getaddrinfo(hostname, None): the addresses a host name resolves
\* to, IPv4 as four octets and IPv6 as eight groups; the empty set stands
\* for socket.gaierror
getaddrinfo(hostname) ==
    CASE hostname = "example.com" -> {<<93, 184, 216, 34>>}
      [] hostname = "other.org" -> {<<93, 184, 216, 35>>}
      [] hostname = "10.0.0.1" -> {<<10, 0, 0, 1>>}
      [] hostname = "127.0.0.1" -> {<<127, 0, 0, 1>>}
      [] hostname = "intranet.example.com" -> {<<93, 184, 216, 34>>, <<192, 168, 1, 5>>}
      [] hostname = "vpn.example.com" -> {<<172, 20, 0, 9>>}
      [] hostname = "ip6.example.com" -> {<<65152, 0, 0, 0, 0, 0, 0, 1>>}
      [] hostname = "localhost" -> {<<127, 0, 0, 1>>, <<0, 0, 0, 0, 0, 0, 0, 1>>}
      [] hostname = "169.254.169.254" -> {<<169, 254, 169, 254>>}
      [] OTHER -> {}

\* ip_obj in network, for some network of _BLOCKED_NETWORKS
InBlockedNetwork(ip) ==
    IF Len(ip) = 4
    THEN \/ ip[1] = 127
         \/ ip[1] = 10
         \/ ip[1] = 172 /\ ip[2] \div 16 = 1
         \/ ip[1] = 192 /\ ip[2] = 168
         \/ ip[1] = 169 /\ ip[2] = 254
    ELSE \/ ip = <<0, 0, 0, 0, 0, 0, 0, 1>>
         \/ ip[1] \div 512 = 126
         \/ ip[1] \div 64 = 1018

_ALLOWED_SCHEMES == {"https", "http"}

_BLOCKED_HOSTNAMES == {"localhost", "metadata", "metadata.google.internal", "169.254.169.254"}

\* validate_public_url(url): TRUE for (True, None)
validate_public_url(u) ==
    IF u.scheme \notin _ALLOWED_SCHEMES THEN FALSE
    ELSE IF u.host = "" THEN FALSE
    ELSE IF u.host \in _BLOCKED_HOSTNAMES THEN FALSE
    ELSE IF u.userinfo THEN FALSE
    ELSE \A ip \in getaddrinfo(u.host) : ~InBlockedNetwork(ip)

----------------------------------------------------------------------------
(* The entry points of an audit: the CLI command, the web endpoints, and   *)
(* the library functions called directly                                   *)

\* "https://" put before a URL that starts with neither "http://" nor
\* "https://"
Prefixed(u) == IF u.scheme \in {"http", "https"} THEN u ELSE [u EXCEPT !.scheme = "https"]

\* The targets a caller may give: public, typed without a scheme, private,
\* loopback, internal by name or by resolution, unresolvable, with
\* credentials, without a host
Targets ==
    {Url("https", "example.com", ""),
     TypedTarget,
     Url("http", "10.0.0.1", ""),
     Url("", "localhost", ""),
     Url("http", "127.0.0.1", "/"),
     Url("https", "intranet.example.com", ""),
     Url("https", "vpn.example.com", ""),
     Url("https", "ip6.example.com", ""),
     Url("http", "169.254.169.254", "/latest"),
     Url("https", "nowhere.invalid", ""),
     [Url("https", "example.com", "") EXCEPT !.userinfo = TRUE],
     Url("https", "", "")}

InitGuard ==
    /\ pc = "start"
    /\ url \in Targets
    /\ cached \in BOOLEAN
    /\ \/ home = Failure /\ page = EmptyPage
       \/ home = Response(200) /\ page \in {EmptyPage, SamplePage}
       \/ home = Response(404) /\ page = ErrorPage
    /\ \/ resp = Failure /\ text = <<>>
       \/ resp = Response(200) /\ text = AllowNamed
    /\ \/ llms_resp = Response(404) /\ llms_text = <<>>
       \/ llms_resp = Response(200) /\ llms_text = LlmsDoc
    /\ agent_rules = <<>>
    /\ robots = DefaultRobots
    /\ bot_status = <<>>
    /\ ScoreIdle
    /\ base_url = NoUrl
    /\ recommendations = <<>>
    /\ checks = ZeroChecks
    /\ found_types = <<>>
    /\ raw_schemas = <<>>
    /\ raised = ""
    /\ tasks = <<>>
    /\ completed = <<>>
    /\ responses = <<>>
    /\ sitemaps = <<>>
    /\ stack = <<>>
    /\ urls = <<>>
    /\ sent = 0
    /\ StoreIdle
    /\ entry = ""
    /\ guard = ""
    /\ requested = <<>>

\* validate_public_url as an entry point asks it
Verdict(u) == IF validate_public_url(u) THEN "accepted" ELSE "rejected"

\* An entry point stops before the audit: nothing of the result changes
NoAudit ==
    UNCHANGED <<robotsVars, scoreVars, auditVars, asyncVars, sitemapVars, storeVars, url, cached,
                requested>>

\* An entry point runs run_full_audit(u)
Audit(u) ==
    /\ Returned(run_full_audit(NormaliseUrl(u), home, page, resp, text,
                               llms_resp, llms_text))
    /\ requested' = RequestsOfAudit(NormaliseUrl(u), home)
    /\ UNCHANGED <<resp, text, bot_status, inputVars, checks, asyncVars, sitemapVars, storeVars,
                   url, cached>>

\* geo audit --url URL, without --cache: the guard on the prefixed URL,
\* exit 1 when it rejects, else run_full_audit(url)
CliAudit ==
    /\ pc = "start"
    /\ entry' = "cli"
    /\ guard' = Verdict(Prefixed(url))
    /\ IF guard' = "rejected"
       THEN pc' = "exit" /\ NoAudit
       ELSE pc' = "audited" /\ Audit(url)

\* _run_audit(url) behind /api/audit: prefix, guard, HTTP 400 when it
\* rejects, the cached result when there is one, else run_full_audit(url)
ApiAudit ==
    /\ pc = "start"
    /\ entry' = "api"
    /\ guard' = Verdict(Prefixed(url))
    /\ IF guard' = "rejected"
       THEN pc' = "refused" /\ NoAudit
       ELSE IF cached
       THEN pc' = "served" /\ NoAudit
       ELSE pc' = "audited" /\ Audit(Prefixed(url))

\* badge(url) behind /badge: the same steps, then the SVG
Badge ==
    /\ pc = "start"
    /\ entry' = "badge"
    /\ guard' = Verdict(Prefixed(url))
    /\ IF guard' = "rejected"
       THEN pc' = "refused" /\ NoAudit
       ELSE IF cached
       THEN pc' = "served" /\ NoAudit
       ELSE pc' = "audited" /\ Audit(Prefixed(url))

NextGuard ==
    \/ CliAudit
    \/ ApiAudit
    \/ Badge
    \/ RunFullAudit
    \/ RunFullAuditAsync

SpecGuard == InitGuard /\ [][NextGuard]_vars

----------------------------------------------------------------------------
(* run_full_audit_async step by step: fetch_urls_async makes one task per  *)
(* URL, asyncio.gather runs them together, each task issues its request    *)
(* when it starts and completes when the answer is there, in any order.    *)

\* [base_url, robots_url, llms_url]
AsyncUrls(bu) == <<bu, urljoin(bu, "/robots.txt"), urljoin(bu, "/llms.txt")>>

\* What the server answers to the URL of task i
Answer(i) == IF i = 1 THEN home ELSE IF i = 2 THEN resp ELSE llms_resp

\* A task of fetch_url_async(url): its result is a returned pair
\* (response, error) or, with exc, a raised exception
Task(u) == [url |-> u, state |-> "pending", result |-> [exc |-> FALSE, r |-> Failure]]

\* Gathered filled in the order the tasks completed in
Gathered_as_completed(ts, order) == [i \in 1..Len(ts) |-> ts[order[i]].result]

\* asyncio.gather(*tasks.values(), return_exceptions=True): the results in
\* the order of the arguments
Gathered(ts, order) == [i \in 1..Len(ts) |-> ts[i].result]

\* The loop over zip(tasks.keys(), gathered): an exception becomes
\* (None, str(result))
Results(ts, gathered) ==
    [i \in 1..Len(ts) |->
        ResponseEntry(ts[i].url, IF gathered[i].exc THEN Failure ELSE gathered[i].r)]

\* Worlds for the step-by-step audit: each URL fails, answers 404 or
\* answers 200
InitAsync ==
    /\ pc = "start"
    /\ url = TypedTarget
    /\ \/ home = Failure /\ page = EmptyPage
       \/ /\ home = Response(200)
          /\ page \in {EmptyPage,
                       SamplePage}
       \/ home = Response(404) /\ page = ErrorPage
    /\ \/ resp \in {Failure, Response(404)} /\ text = <<>>
       \/ resp = Response(200) /\ text = AllowNamed
    /\ \/ llms_resp \in {Failure, Response(404)} /\ llms_text = <<>>
       \/ llms_resp = Response(200) /\ llms_text = LlmsDoc
    /\ agent_rules = <<>>
    /\ robots = DefaultRobots
    /\ bot_status = <<>>
    /\ ScoreIdle
    /\ base_url = NoUrl
    /\ recommendations = <<>>
    /\ checks = ZeroChecks
    /\ found_types = <<>>
    /\ raw_schemas = <<>>
    /\ raised = ""
    /\ tasks = <<>>
    /\ completed = <<>>
    /\ responses = <<>>
    /\ sitemaps = <<>>
    /\ stack = <<>>
    /\ urls = <<>>
    /\ sent = 0
    /\ StoreIdle
    /\ entry = ""
    /\ guard = ""
    /\ cached = FALSE
    /\ requested = <<>>

\* run_full_audit_async up to the gather: normalise the URL, build the
\* three URLs, make the tasks
CreateTasks ==
    /\ pc = "start"
    /\ entry' = "run_full_audit_async"
    /\ base_url' = NormaliseUrl(url)
    /\ tasks' = [i \in 1..3 |-> Task(AsyncUrls(base_url')[i])]
    /\ pc' = "gather"
    /\ UNCHANGED <<robotsVars, scoreVars, inputVars, recommendations, checks,
                   found_types, raw_schemas, raised, completed, responses,
                   sitemapVars, storeVars, url, guard, cached, requested>>

\* A task starts: fetch_url_async reaches `await client.get(url)`
StartFetch(i) ==
    /\ pc = "gather"
    /\ tasks[i].state = "pending"
    /\ tasks' = [tasks EXCEPT ![i].state = "waiting"]
    /\ requested' = Append(requested, Request(tasks[i].url, 0))
    /\ UNCHANGED <<pc, robotsVars, scoreVars, auditVars, completed, responses,
                   sitemapVars, storeVars, guardVars>>

\* A task completes: it returns the response, or the error of a failed
\* fetch, or the failure leaves it as an exception
CompleteFetch(i) ==
    /\ pc = "gather"
    /\ tasks[i].state = "waiting"
    /\ \E exc \in (IF Answer(i) = Failure THEN BOOLEAN ELSE {FALSE}) :
         tasks' = [tasks EXCEPT ![i].state = "done",
                                ![i].result = [exc |-> exc, r |-> Answer(i)]]
    /\ completed' = Append(completed, i)
    /\ UNCHANGED <<pc, robotsVars, scoreVars, auditVars, responses, sitemapVars, storeVars,
                   guardVars, requested>>

\* All tasks are done: gather returns, fetch_urls_async builds its dict and
\* run_full_audit_async goes on to its end
FinishAudit ==
    /\ pc = "gather"
    /\ \A i \in 1..Len(tasks) : tasks[i].state = "done"
    /\ responses' = Results(tasks, Gathered(tasks, completed))
    /\ Returned(run_full_audit_async(base_url, responses', page, text, llms_text))
    /\ pc' = "audited"
    /\ UNCHANGED <<resp, text, bot_status, inputVars, checks, tasks, completed,
                   sitemapVars, storeVars, guardVars, requested>>

NextAsync ==
    \/ CreateTasks
    \/ \E i \in 1..3 : StartFetch(i)
    \/ \E i \in 1..3 : CompleteFetch(i)
    \/ FinishAudit

SpecAsync == InitAsync /\ [][NextAsync]_vars

----------------------------------------------------------------------------
(* fetch_sitemap, with its recursion as an explicit call stack             *)

_MAX_SITEMAP_DEPTH == 3

\* Retry(total=total_retries): one request and up to three more
total_retries == 3

\* References in a crafted sitemap index
MaxChildren == 11

\* What a sitemap URL serves: whether session.get and raise_for_status come
\* through, the HTTP requests the retrying session sends for it, and the
\* <loc> of each <sitemap> and <url> tag (NoUrl: a tag without <loc>)
Served(ok, attempts, sitemap_tags, url_tags) ==
    [ok |-> ok, attempts |-> attempts, sitemap_tags |-> sitemap_tags, url_tags |-> url_tags]
ErrorDoc(attempts) == Served(FALSE, attempts, <<>>, <<>>)
UrlSet(locs) == Served(TRUE, 1, <<>>, locs)
Index(locs) == Served(TRUE, 1, locs, <<>>)

\* urljoin(sitemap_url, loc.text.strip()) for an absolute URL or a path
JoinLoc(base, loc) == IF loc.scheme # "" THEN loc ELSE [base EXCEPT !.path = loc.path]

Root == Url("https", "example.com", "/sitemap.xml")
Sub == Url("https", "example.com", "/sitemap-posts.xml")
Down == Url("https", "example.com", "/sitemap-old.xml")
Private == Url("http", "10.0.0.1", "/sitemap.xml")
SitemapUrls == {Root, Sub, Down, Private}

\* The tags of an index the loop goes over, uncapped
sitemap_tags_all(tags) == tags

\* sitemap_tags[:10]
sitemap_tags_capped(tags) == SubSeq(tags, 1, IF Len(tags) < 10 THEN Len(tags) ELSE 10)

\* A call of fetch_sitemap(sitemap_url, _depth): at "enter" before its
\* body, at "loop" in the loop over the sub-sitemaps, before tag i
Frame(u, depth) == [url |-> u, depth |-> depth, at |-> "enter", tags |-> <<>>, i |-> 1]

\* The loop over url_tags: one SitemapUrl per tag that has a <loc>
RECURSIVE UrlLoop(_, _)
UrlLoop(u, locs) ==
    IF locs = <<>> THEN <<>>
    ELSE IF Head(locs) = NoUrl THEN UrlLoop(u, Tail(locs))
    ELSE <<JoinLoc(u, Head(locs))>> \o UrlLoop(u, Tail(locs))

RootDocs ==
    {ErrorDoc(1), ErrorDoc(1 + total_retries),
     UrlSet(<<Url("https", "example.com", "/"), NoUrl, Url("", "", "/about")>>),
     Served(TRUE, 1, <<Sub>>, <<Url("https", "example.com", "/")>>),
     Index(Repeat(Root, MaxChildren)),
     Index(Repeat(Sub, MaxChildren)),
     Index(<<Sub>>),
     Index(<<Sub, Private>>),
     Index(<<Private>>),
     Index(<<NoUrl, Url("", "", "/sitemap-posts.xml")>>),
     Index(<<Down, Sub>>)}

SubDocs ==
    {ErrorDoc(1),
     UrlSet(<<Url("https", "example.com", "/post-1")>>),
     Index(Repeat(Sub, MaxChildren)),
     Index(Repeat(Down, MaxChildren)),
     Index(<<Root>>),
     Index(<<Private, Sub>>)}

InitSitemap ==
    /\ pc = "start"
    /\ \E r \in RootDocs, d \in SubDocs :
         sitemaps = [u \in SitemapUrls |->
                       CASE u = Root -> r
                         [] u = Sub -> d
                         [] u = Down -> ErrorDoc(1 + total_retries)
                         [] OTHER -> UrlSet(<<Url("http", "10.0.0.1", "/admin")>>)]
    /\ RobotsIdle
    /\ robots = DefaultRobots
    /\ ScoreIdle
    /\ AuditIdle
    /\ tasks = <<>>
    /\ completed = <<>>
    /\ responses = <<>>
    /\ stack = <<>>
    /\ urls = <<>>
    /\ sent = 0
    /\ StoreIdle
    /\ entry = ""
    /\ url = Root
    /\ guard = ""
    /\ cached = FALSE
    /\ requested = <<>>

SitemapUnchanged ==
    <<robotsVars, scoreVars, auditVars, asyncVars, sitemaps, guard, cached, storeVars>>

\* The top-level call fetch_sitemap(sitemap_url)
CallFetchSitemap ==
    /\ pc = "start"
    /\ entry' = "fetch_sitemap"
    /\ stack' = <<Frame(url, 0)>>
    /\ pc' = "running"
    /\ UNCHANGED <<SitemapUnchanged, urls, sent, url, requested>>

\* The innermost call returns to its caller, the outermost to the caller of
\* fetch_sitemap
Return == stack' = Tail(stack) /\ pc' = IF Tail(stack) = <<>> THEN "done" ELSE pc

\* _depth >= _MAX_SITEMAP_DEPTH: return the empty list without a request
DepthLimit ==
    /\ pc = "running"
    /\ stack # <<>> /\ Head(stack).at = "enter"
    /\ Head(stack).depth >= _MAX_SITEMAP_DEPTH
    /\ Return
    /\ UNCHANGED <<SitemapUnchanged, urls, sent, entry, url, requested>>

\* The body of a call up to its loop over the sub-sitemaps: the request,
\* an error return, the URLs of a regular sitemap
Fetch ==
    /\ pc = "running"
    /\ stack # <<>> /\ Head(stack).at = "enter"
    /\ Head(stack).depth < _MAX_SITEMAP_DEPTH
    /\ LET f == Head(stack)
           doc == sitemaps[f.url]
       IN /\ requested' = Append(requested, Request(f.url, f.depth))
          /\ sent' = sent + doc.attempts
          /\ IF ~doc.ok
             THEN Return /\ urls' = urls
             ELSE IF doc.sitemap_tags # <<>>
             THEN /\ stack' = <<[f EXCEPT !.at = "loop",
                                          !.tags = sitemap_tags_capped(doc.sitemap_tags)]>>
                              \o Tail(stack)
                  /\ UNCHANGED <<pc, urls>>
             ELSE /\ urls' = urls \o UrlLoop(f.url, doc.url_tags)
                  /\ Return
    /\ UNCHANGED <<SitemapUnchanged, entry, url>>

\* One turn of the loop for a tag that has a <loc>: the recursive call
NextChild ==
    /\ pc = "running"
    /\ stack # <<>> /\ Head(stack).at = "loop"
    /\ LET f == Head(stack)
       IN /\ f.i <= Len(f.tags)
          /\ f.tags[f.i] # NoUrl
          /\ stack' = <<Frame(JoinLoc(f.url, f.tags[f.i]), f.depth + 1),
                        [f EXCEPT !.i = f.i + 1]>> \o Tail(stack)
    /\ UNCHANGED <<pc, SitemapUnchanged, urls, sent, entry, url, requested>>

\* One turn of the loop for a tag without <loc>
SkipChild ==
    /\ pc = "running"
    /\ stack # <<>> /\ Head(stack).at = "loop"
    /\ LET f == Head(stack)
       IN /\ f.i <= Len(f.tags)
          /\ f.tags[f.i] = NoUrl
          /\ stack' = <<[f EXCEPT !.i = f.i + 1]>> \o Tail(stack)
    /\ UNCHANGED <<pc, SitemapUnchanged, urls, sent, entry, url, requested>>

\* The loop is over: return what the sub-sitemaps gave
ReturnIndex ==
    /\ pc = "running"
    /\ stack # <<>> /\ Head(stack).at = "loop"
    /\ Head(stack).i > Len(Head(stack).tags)
    /\ Return
    /\ UNCHANGED <<SitemapUnchanged, urls, sent, entry, url, requested>>

NextSitemap ==
    \/ CallFetchSitemap
    \/ DepthLimit
    \/ Fetch
    \/ NextChild
    \/ SkipChild
    \/ ReturnIndex

\* A call that can take a step takes it
SpecSitemap == InitSitemap /\ [][NextSitemap]_vars /\ WF_vars(NextSitemap)

----------------------------------------------------------------------------
(* generate_llms_txt: sort, filter, deduplicate, categorise, emit          *)

\* Entries handed to generate_llms_txt
MaxEntries == 3

\* A priority: a float in tenths, or float("nan") as fetch_sitemap parses
\* it from <priority>nan</priority>
Priority(v) == [nan |-> FALSE, v |-> v]
NaN == [nan |-> TRUE, v |-> 0]

\* SitemapUrl(url, priority, title)
SitemapUrl(u, priority, title) == [url |-> u, priority |-> priority, title |-> title]

\* key=lambda x: -x.priority
SortKey(x) == [x.priority EXCEPT !.v = 0 - x.priority.v]

\* a < b on floats: False when either is nan
ISLT(a, b) == ~a.nan /\ ~b.nan /\ a.v < b.v

\* The end of the run that starts the list: strictly descending when desc,
\* else non-descending
RECURSIVE RunEnd(_, _, _)
RunEnd(s, k, desc) ==
    IF k > Len(s) THEN Len(s)
    ELSE IF ISLT(SortKey(s[k]), SortKey(s[k - 1])) = desc THEN RunEnd(s, k + 1, desc)
    ELSE k - 1

Reverse(s) == [i \in 1..Len(s) |-> s[Len(s) + 1 - i]]

\* The position the binary search gives the pivot among s[l..r-1]
RECURSIVE BinarySearch(_, _, _, _)
BinarySearch(s, pivot, l, r) ==
    IF l >= r THEN l
    ELSE LET p == l + ((r - l) \div 2)
         IN IF ISLT(SortKey(pivot), SortKey(s[p])) THEN BinarySearch(s, pivot, l, p)
            ELSE BinarySearch(s, pivot, p + 1, r)

\* Binary insertion of s[start..] into the sorted s[1..start-1]
RECURSIVE BinarySort(_, _)
BinarySort(s, start) ==
    IF start > Len(s) THEN s
    ELSE LET l == BinarySearch(s, s[start], 1, start)
         IN BinarySort(SubSeq(s, 1, l - 1) \o <<s[start]>> \o SubSeq(s, l, start - 1)
                         \o SubSeq(s, start + 1, Len(s)),
                       start + 1)

\* sorted(urls, key=lambda x: -x.priority) for a short list: the first run
\* is found (and reversed when descending), the rest is inserted by binary
\* search; every comparison is a < on the keys
sorted(s) ==
    IF Len(s) < 2 THEN s
    ELSE LET desc == ISLT(SortKey(s[2]), SortKey(s[1]))
             n == RunEnd(s, 3, desc)
             run == IF desc THEN Reverse(SubSeq(s, 1, n)) ELSE SubSeq(s, 1, n)
         IN BinarySort(run \o SubSeq(s, n + 1, Len(s)), n + 1)

\* url_belongs_to_domain(url, domain): the host is the domain or one of its
\* subdomains, and the URL carries no credentials
url_belongs_to_domain(u, domain) ==
    /\ ~u.userinfo
    /\ u.host \in {domain, "blog." \o domain}

\* should_skip(url), on the paths of the model
should_skip(u) == u.path = "/admin"

\* categorize_url(url, base_domain), on the paths of the model
categorize_url(u) ==
    CASE u.path = "/about" -> "About"
      [] u.path = "/privacy" -> "Privacy & Legal"
      [] u.path \in {"/", ""} -> "_homepage"
      [] OTHER -> "Main Pages"

SECTION_PRIORITY_ORDER ==
    << "Tools", "Calculators", "Finance Tools", "Health & Wellness", "Math",
       "Applications", "Main Pages", "Documentation", "Guides", "Tutorials",
       "Blog & Articles", "Articles", "Posts", "Products", "Services", "About",
       "Contact", "Other", "Privacy & Legal", "Terms" >>

OPTIONAL_CATEGORIES == {"Privacy & Legal", "Terms", "Contact", "Other"}

\* The loop over the sorted entries: normalise, filter, deduplicate,
\* categorise; acc is the items kept so far, in order
RECURSIVE Categorize(_, _, _, _)
Categorize(acc, seen, entries, bu) ==
    IF entries = <<>> THEN acc
    ELSE LET url_data == Head(entries)
             u == JoinLoc(bu, url_data.url)
         IN IF ~url_belongs_to_domain(u, bu.host) \/ should_skip(u) \/ u \in seen
            THEN Categorize(acc, seen, Tail(entries), bu)
            ELSE Categorize(Append(acc, [url |-> u, label |-> url_data.title,
                                         priority |-> url_data.priority,
                                         category |-> categorize_url(u)]),
                            seen \cup {u}, Tail(entries), bu)

\* categorized[category], in order
InCategory(items, category) == SelectSeq(items, LAMBDA it : it.category = category)

\* items[:n]
Take(s, n) == SubSeq(s, 1, IF Len(s) < n THEN Len(s) ELSE n)

\* The links of the sections named in cats, each capped to n
RECURSIVE SectionLinks(_, _, _)
SectionLinks(items, cats, n) ==
    IF cats = <<>> THEN <<>>
    ELSE Take(InCategory(items, Head(cats)), n) \o SectionLinks(items, Tail(cats), n)

\* The links of the text generate_llms_txt returns, in order: the homepage
\* line, the main sections in SECTION_PRIORITY_ORDER, the Optional section
\* (every category of the model is in SECTION_PRIORITY_ORDER)
generate_llms_txt(bu, entries, max_urls_per_section) ==
    LET items == Categorize(<<>>, {}, sorted(entries), bu)
        main == SelectSeq(SECTION_PRIORITY_ORDER, LAMBDA c : c \notin OPTIONAL_CATEGORIES)
        optional == SelectSeq(SECTION_PRIORITY_ORDER, LAMBDA c : c \in OPTIONAL_CATEGORIES)
    IN Take(InCategory(items, "_homepage"), 1)
       \o SectionLinks(items, main, max_urls_per_section)
       \o SectionLinks(items, optional, 5)

\* The URLs of the entries: a page, the same page by a relative URL, the
\* homepage, a page of the Optional section, a skipped path, another site
EntryUrls ==
    {Url("https", "example.com", "/about"), Url("", "", "/about"),
     Url("https", "example.com", "/"), Url("https", "example.com", "/privacy"),
     Url("https", "example.com", "/admin"), Url("https", "other.org", "/about")}

Priorities == {Priority(5), Priority(8), NaN}

\* Lists of entries; the title of an entry tells its place in the list
EntryLists ==
    UNION {{[i \in 1..k |-> SitemapUrl(us[i], ps[i], i)] :
              us \in [1..k -> EntryUrls], ps \in [1..k -> Priorities]} : k \in 0..MaxEntries}

InitLlms ==
    /\ pc = "sitemap"
    /\ RobotsIdle
    /\ robots = DefaultRobots
    /\ ScoreIdle
    /\ AuditIdle
    /\ tasks = <<>>
    /\ completed = <<>>
    /\ responses = <<>>
    /\ sitemaps = <<>>
    /\ stack = <<>>
    /\ urls \in EntryLists
    /\ sent = 0
    /\ entry = ""
    /\ url = Target
    /\ guard = ""
    /\ cached = FALSE
    /\ requested = <<>>
    /\ linked = <<>>
    /\ audit_cache = <<>>
    /\ file_cache = <<>>
    /\ now = 0
    /\ served = NoAnswer
    /\ log = <<>>

\* generate_llms_txt(base_url, urls) with the default cap of 20 links
GenerateLlmsTxt ==
    /\ pc = "sitemap"
    /\ linked' = generate_llms_txt(url, urls, 20)
    /\ pc' = "generated"
    /\ UNCHANGED <<robotsVars, scoreVars, auditVars, asyncVars, sitemapVars, guardVars,
                   requested, audit_cache, file_cache, now, served, log>>

NextLlms == GenerateLlmsTxt

SpecLlms == InitLlms /\ [][NextLlms]_vars

----------------------------------------------------------------------------
(* The web app: the in-memory audit cache behind /api/audit, /badge and    *)
(* /report/{id}                                                            *)

_CACHE_TTL == 3600

\* The maximum number of entries tests/test_security_m1.py expects of the
\* audit cache; web/app.py defines none
_MAX_CACHE_SIZE == 2

\* Steps of the clock in a run
MaxTicks == 4

\* time.time() advances by half a TTL at a step
ClockStep == _CACHE_TTL \div 2

\* Public hosts a caller may name
PublicHosts == <<"example.com", "other.org", "nowhere.invalid", "blog.example.com">>

\* The URLs given to the web endpoints: one more public site than
\* _MAX_CACHE_SIZE, one of them also in capitals, and a private address
WebTargets ==
    {Url("https", PublicHosts[i], "") : i \in 1.._MAX_CACHE_SIZE + 1}
      \cup {Url("https", "Example.com", ""), Url("http", "10.0.0.1", "")}

\* _cache_key(url): the first 16 hex digits of the SHA-256 of
\* url.lower().strip(); the model keeps the lower-cased URL as the key
\* (distinct URLs of the model have distinct digests)
_cache_key(u) == [u EXCEPT !.host = IF u.host = "Example.com" THEN "example.com" ELSE u.host]

\* _audit_cache.get(key): the entries under the key, none or one
Entries(cache, key) == SelectSeq(cache, LAMBDA e : e.key = key)

\* _get_cached(url) at time t: the entry's data in a sequence, <<>> for None
_get_cached(cache, u, t) ==
    LET found == Entries(cache, _cache_key(u))
    IN IF found # <<>> /\ (t - found[1].cached_at) < _CACHE_TTL THEN <<found[1]>> ELSE <<>>

\* _set_cached(url, data) at time t: _audit_cache[key] = {...}; a dict
\* keeps the place of a key it already holds
_set_cached(cache, u, data, t) ==
    LET e == [key |-> _cache_key(u), data |-> data, cached_at |-> t]
    IN IF Entries(cache, e.key) = <<>> THEN Append(cache, e)
       ELSE [i \in 1..Len(cache) |-> IF cache[i].key = e.key THEN e ELSE cache[i]]

\* What a call answers at time now: where the answer is from, for which
\* URL, how old the entry it is taken from was, and the data
Answered(from, u, age, data) ==
    [from |-> from, url |-> u, at |-> now, age |-> age, data |-> data]

\* _audit_result_to_dict(run_full_audit(url)) at time t: the audited URL
\* and the result's timestamp
AuditData(u, t) == <<u, t>>

WebUnchanged ==
    <<robotsVars, scoreVars, auditVars, asyncVars, sitemapVars, url, guard, cached,
      requested, linked, file_cache, log>>

InitWebCache ==
    /\ pc = "web"
    /\ robots = DefaultRobots
    /\ RobotsIdle
    /\ ScoreIdle
    /\ AuditIdle
    /\ PipelineIdle

\* The steps /api/audit and /badge share: prefix, guard, the cached result
\* when _get_cached returns one, else a fresh audit stored by _set_cached
Serve(u) ==
    LET target == Prefixed(u)
        hit == _get_cached(audit_cache, target, now)
    IN IF ~validate_public_url(target)
       THEN /\ served' = Answered("400", target, 0, <<>>)
            /\ UNCHANGED audit_cache
       ELSE IF hit # <<>>
       THEN /\ served' = Answered("cache", target, now - hit[1].cached_at, hit[1].data)
            /\ UNCHANGED audit_cache
       ELSE /\ served' = Answered("audit", target, 0, AuditData(target, now))
            /\ audit_cache' = _set_cached(audit_cache, target, AuditData(target, now), now)

\* _run_audit(url) behind GET and POST /api/audit
_run_audit(u) ==
    /\ pc = "web"
    /\ entry' = "api"
    /\ Serve(u)
    /\ UNCHANGED <<pc, now, WebUnchanged>>

\* badge(url) behind /badge
badge(u) ==
    /\ pc = "web"
    /\ entry' = "badge"
    /\ Serve(u)
    /\ UNCHANGED <<pc, now, WebUnchanged>>

\* report(report_id) behind /report/{report_id}: 404 when the cache has
\* no entry under the id, else the entry rendered
report(report_id) ==
    /\ pc = "web"
    /\ entry' = "report"
    /\ LET found == Entries(audit_cache, report_id)
       IN IF found = <<>>
          THEN served' = Answered("404", report_id, 0, <<>>)
          ELSE served' = Answered("report", report_id, now - found[1].cached_at,
                                   found[1].data)
    /\ UNCHANGED <<pc, now, audit_cache, WebUnchanged>>

\* Time passes
Tick ==
    /\ pc \in {"web", "files"}
    /\ now + ClockStep <= MaxTicks * ClockStep
    /\ now' = now + ClockStep
    /\ UNCHANGED <<pc, entry, audit_cache, served, WebUnchanged>>

NextWebCache ==
    \/ \E u \in WebTargets : _run_audit(u)
    \/ \E u \in WebTargets : badge(u)
    \/ \E u \in WebTargets : report(_cache_key(u))
    \/ Tick

SpecWebCache == InitWebCache /\ [][NextWebCache]_vars

----------------------------------------------------------------------------
(* FileCache: the on-disk cache of HTTP responses behind --cache           *)

DEFAULT_TTL == 3600

\* put and clear calls in a run
MaxCalls == 3

\* The URLs cached and the (status_code, text, headers) triples stored
CachedUrls == {Url("https", "example.com", ""), Url("https", "other.org", "")}
Triples == {<<200, "a">>, <<200, "b">>}

\* The file at _path(url), none or one
FileOf(files, u) == SelectSeq(files, LAMBDA f : f.url = u)

\* FileCache.get(url) that takes an entry for expired from ttl seconds on
FileCache_get_early(files, u, t) ==
    LET found == FileOf(files, u)
    IN IF found = <<>> THEN [value |-> <<>>, files |-> files]
       ELSE IF t - found[1].cached_at >= DEFAULT_TTL
       THEN [value |-> <<>>, files |-> SelectSeq(files, LAMBDA f : f.url # u)]
       ELSE [value |-> <<found[1].triple>>, files |-> files]

\* FileCache.get(url) at time t: the triple in a sequence, <<>> for None,
\* and the files left; an expired file is unlinked
FileCache_get(files, u, t) ==
    LET found == FileOf(files, u)
    IN IF found = <<>> THEN [value |-> <<>>, files |-> files]
       ELSE IF t - found[1].cached_at > DEFAULT_TTL
       THEN [value |-> <<>>, files |-> SelectSeq(files, LAMBDA f : f.url # u)]
       ELSE [value |-> <<found[1].triple>>, files |-> files]

\* FileCache.put(url, status_code, text, headers) at time t: the file is
\* written, over the one that was there
FileCache_put(files, u, triple, t) ==
    LET f == [url |-> u, triple |-> triple, cached_at |-> t]
    IN IF FileOf(files, u) = <<>> THEN Append(files, f)
       ELSE [i \in 1..Len(files) |-> IF files[i].url = u THEN f ELSE files[i]]

\* FileCache.stats()["files"]
FileCache_stats(files) == Len(files)

\* A call of put or clear as the history keeps it
PutCall(u, triple, t) == [op |-> "put", url |-> u, triple |-> triple, at |-> t]
ClearCall == [op |-> "clear", url |-> NoUrl, triple |-> <<>>, at |-> 0]

FilesUnchanged ==
    <<robotsVars, scoreVars, auditVars, asyncVars, sitemapVars, url, guard, cached,
      requested, linked, audit_cache>>

InitFileCache ==
    /\ pc = "files"
    /\ robots = DefaultRobots
    /\ RobotsIdle
    /\ ScoreIdle
    /\ AuditIdle
    /\ PipelineIdle

\* cache.put(url, status_code, text, headers)
Put(u, triple) ==
    /\ pc = "files"
    /\ Len(log) < MaxCalls
    /\ entry' = "put"
    /\ file_cache' = FileCache_put(file_cache, u, triple, now)
    /\ log' = Append(log, PutCall(u, triple, now))
    /\ served' = Answered("put", u, 0, <<>>)
    /\ UNCHANGED <<pc, now, FilesUnchanged>>

\* cache.get(url)
Get(u) ==
    /\ pc = "files"
    /\ entry' = "get"
    /\ LET got == FileCache_get(file_cache, u, now)
       IN /\ file_cache' = got.files
          /\ served' = Answered(IF got.value = <<>> THEN "none" ELSE "file", u,
                                FileCache_stats(got.files), got.value)
    /\ UNCHANGED <<pc, now, log, FilesUnchanged>>

\* cache.clear(): the directory is removed, the number of files returned
Clear ==
    /\ pc = "files"
    /\ Len(log) < MaxCalls
    /\ entry' = "clear"
    /\ file_cache' = <<>>
    /\ log' = Append(log, ClearCall)
    /\ served' = Answered("clear", NoUrl, FileCache_stats(file_cache), <<>>)
    /\ UNCHANGED <<pc, now, FilesUnchanged>>

\* The homepage fetch of run_full_audit(url, use_cache=True): the cached
\* triple when cache.get returns one, else fetch_url and, for a response
\* that is truthy and without error, cache.put
CachedFetch(u, h, body) ==
    /\ pc = "files"
    /\ Len(log) < MaxCalls
    /\ entry' = "audit"
    /\ LET got == FileCache_get(file_cache, u, now)
       IN IF got.value # <<>>
          THEN /\ file_cache' = got.files
               /\ log' = log
               /\ served' = Answered("file", u, FileCache_stats(got.files), got.value)
          ELSE IF ~h.err /\ RequestsTruthy(h)
          THEN /\ file_cache' = FileCache_put(got.files, u, <<h.status, body>>, now)
               /\ log' = Append(log, PutCall(u, <<h.status, body>>, now))
               /\ served' = Answered("fetch", u, 0, <<<<h.status, body>>>>)
          ELSE /\ file_cache' = got.files
               /\ log' = log
               /\ served' = Answered("fetch", u, 0, <<>>)
    /\ UNCHANGED <<pc, now, FilesUnchanged>>

NextFileCache ==
    \/ \E u \in CachedUrls, triple \in Triples : Put(u, triple)
    \/ \E u \in CachedUrls : Get(u)
    \/ Clear
    \/ \E u \in CachedUrls, h \in {Response(200), Response(404), Failure}, body \in {"a", "b"} :
         CachedFetch(u, h, body)
    \/ Tick

SpecFileCache == InitFileCache /\ [][NextFileCache]_vars

----------------------------------------------------------------------------
(* Reading a robots.txt the way the specification words it, line by line   *)
(* and without the parser's loop state.                                    *)

IsAgentLine(line) == ~IsSkipped(line) /\ Lower(line.key) = "user-agent"
IsDisallowLine(line) == ~IsSkipped(line) /\ Lower(line.key) = "disallow"
IsAllowLine(line) == ~IsSkipped(line) /\ Lower(line.key) = "allow"

MaxOf(S) == CHOOSE x \in S : \A y \in S : y <= x
MinOf(S) == CHOOSE x \in S : \A y \in S : x <= y

\* The agents named by the most recent run of consecutive User-agent lines
\* before line i, in order: the run ends at the last User-agent line before
\* i and reaches back over User-agent, blank and comment lines only
RecentRun(lines, i) ==
    LET before == {j \in 1..(i - 1) : IsAgentLine(lines[j])}
    IN IF before = {} THEN <<>>
       ELSE LET last == MaxOf(before)
                first == MinOf({s \in 1..last :
                            \A k \in s..last : IsAgentLine(lines[k]) \/ IsSkipped(lines[k])})
                run == SelectSeq(SubSeq(lines, first, last), IsAgentLine)
            IN [k \in 1..Len(run) |-> run[k].val]

Count(x, s) == Cardinality({k \in 1..Len(s) : s[k] = x})


\* The paths of the Disallow lines (disallow = TRUE) or Allow lines among the
\* first n lines that fall to agent a, in file order, one per naming of a in
\* the line's run
RECURSIVE PathsFor(_, _, _, _)
PathsFor(lines, n, a, disallow) ==
    IF n = 0 THEN <<>>
    ELSE PathsFor(lines, n - 1, a, disallow) \o
         (IF (IF disallow THEN IsDisallowLine(lines[n]) ELSE IsAllowLine(lines[n]))
          THEN Repeat(lines[n].val, Count(a, RecentRun(lines, n)))
          ELSE <<>>)

InsertAt(lines, i, ins) == SubSeq(lines, 1, i) \o ins \o SubSeq(lines, i + 1, Len(lines))

HasRoot(paths) == \E i \in 1..Len(paths) : paths[i] \in {"/", "/*"}

Parsed == pc = "done" /\ robots.found

----------------------------------------------------------------------------
(* Claims                                                                  *)

\* The agents of the block of directly consecutive User-agent lines that
\* ends at line k
BlockAgents(lines, k) ==
    LET first == MinOf({s \in 1..k : \A j \in s..k : IsAgentLine(lines[j])})
    IN {lines[j].val : j \in first..k}

\* C1 (as claimed): whenever two or more consecutive User-agent lines, naming
\* at least two agents, are followed by a `Disallow: /` line and no entry named like one of those
\* agents (in any letter case) has `Allow: /` or `Allow: /*`, classify_bot
\* classifies every agent of the group as blocked.
C1_StackedAgentsBlocked ==
    Parsed =>
      \A k \in 2..(Len(text) - 1) :
        ( /\ IsAgentLine(text[k]) /\ IsAgentLine(text[k - 1])
          /\ Cardinality(BlockAgents(text, k)) >= 2
          /\ IsDisallowLine(text[k + 1]) /\ text[k + 1].val = "/"
          /\ \A a \in BlockAgents(text, k) :
               \A i \in 1..Len(agent_rules) :
                 Lower(agent_rules[i].agent) = Lower(a) => ~HasRoot(agent_rules[i].allow) )
        => \A a \in BlockAgents(text, k) :
             classify_bot(a, "", agent_rules).status = "blocked"

\* The matched entry of roster bot b holds `Disallow: /`
MatchedDisallowsRoot(b) ==
    LET st == classify_bot(AI_BOTS[b][1], AI_BOTS[b][2], agent_rules)
    IN /\ st.matched_agent # <<>>
       /\ InSeq("/", RulesOf(agent_rules, st.matched_agent[1]).disallow)

MatchedAllow(b) ==
    RulesOf(agent_rules,
            classify_bot(AI_BOTS[b][1], AI_BOTS[b][2], agent_rules).matched_agent[1]).allow

\* Roster bot b is blocked now, and allowed once `User-agent: <its matched
\* agent>` / `Allow: /` is added to the file, wherever the two lines go
BlockedThenAllowed(b) ==
    LET st == classify_bot(AI_BOTS[b][1], AI_BOTS[b][2], agent_rules)
        added == <<Line("User-agent", st.matched_agent[1], ""), Line("Allow", "/", "")>>
    IN /\ st.status = "blocked"
       /\ \A i \in 0..Len(text) :
            classify_bot(AI_BOTS[b][1], AI_BOTS[b][2],
                         parse_robots_txt(InsertAt(text, i, added))).status = "allowed"

\* C2 (as claimed): a bot whose matched agent has `Disallow: /` and no
\* `Allow: /` is blocked, and adding `Allow: /` for that agent makes it
\* allowed.
C2_Original ==
    Parsed =>
      \A b \in 1..Len(AI_BOTS) :
        (MatchedDisallowsRoot(b) /\ ~InSeq("/", MatchedAllow(b))) => BlockedThenAllowed(b)

\* C2 (amended): a bot whose matched agent has `Disallow: /` and neither
\* `Allow: /` nor `Allow: /*` is blocked, and adding `Allow: /` for that
\* agent makes it allowed.
C2_AllowRootOverrides ==
    Parsed =>
      \A b \in 1..Len(AI_BOTS) :
        (MatchedDisallowsRoot(b) /\ ~HasRoot(MatchedAllow(b))) => BlockedThenAllowed(b)

\* C2 witness: GPTBot is blocked by its own entry, which has no Allow line
C2_Witness ==
    /\ Parsed
    /\ MatchedDisallowsRoot(1)
    /\ MatchedAllow(1) = <<>>
    /\ InSeq("GPTBot", robots.bots_blocked)

\* C3: the rule lists parse_robots_txt returns are, for every agent, the
\* paths of exactly those Allow / Disallow lines whose most recent run of
\* consecutive User-agent lines names the agent (blank and comment lines do
\* not end a run, any other line does); a directive before every User-agent
\* line has an empty run and goes to no agent, and the agents with an entry
\* are the agents of the User-agent lines.
C3_RulesFollowRecentRun ==
    Parsed =>
      /\ Keys(agent_rules) = {text[i].val : i \in {j \in 1..Len(text) : IsAgentLine(text[j])}}
      /\ \A i \in 1..Len(agent_rules) :
           /\ agent_rules[i].disallow = PathsFor(text, Len(text), agent_rules[i].agent, TRUE)
           /\ agent_rules[i].allow = PathsFor(text, Len(text), agent_rules[i].agent, FALSE)

\* C3 witness: a User-agent line, a line that is no directive, a second
\* User-agent line naming another agent and a rule line: the rule went to
\* the second agent only
C3_Witness ==
    /\ Parsed
    /\ Len(text) = 4
    /\ IsAgentLine(text[1]) /\ text[2] \in OtherLines /\ IsAgentLine(text[3])
    /\ IsDisallowLine(text[4])
    /\ text[1].val # text[3].val
    /\ RulesOf(agent_rules, text[1].val).disallow = <<>>
    /\ RulesOf(agent_rules, text[3].val).disallow = <<text[4].val>>

NotFetched == resp.err \/ resp.status # 200

\* C6 (as claimed): after a failed or non-200 fetch the result has found =
\* false, no bot allowed or blocked, every roster bot in bots_missing and
\* citation_bots_ok false.
C6_Original ==
    (pc = "done" /\ NotFetched) =>
      /\ ~robots.found
      /\ robots.bots_allowed = <<>> /\ robots.bots_blocked = <<>>
      /\ \A b \in BotNames : InSeq(b, robots.bots_missing)
      /\ ~robots.citation_bots_ok

\* C6 (amended): after a failed or non-200 fetch the result is the default
\* RobotsResult whatever the body holds: found = false, bots_allowed,
\* bots_blocked and bots_missing all empty (no bot is listed, the roster is
\* missing only implicitly) and citation_bots_ok false.
C6_NotFoundIsDefault ==
    (pc = "done" /\ NotFetched) =>
      /\ ~robots.found
      /\ robots.bots_allowed = <<>> /\ robots.bots_blocked = <<>>
      /\ robots.bots_missing = <<>>
      /\ ~robots.citation_bots_ok

\* C6 witness: a redirect answer whose body reads `User-agent: *` has been
\* audited
C6_Witness ==
    /\ pc = "done"
    /\ resp = Response(301)
    /\ text = <<Line("USER-AGENT", "*", "")>>

Classified == pc = "classified"

\* What an entry decides by the specification's rule: blocked when its
\* disallow list holds `/` or `/*` and its allow list holds neither
EntryStatus(r) == IF HasRoot(r.disallow) /\ ~HasRoot(r.allow) THEN "blocked" ELSE "allowed"

\* C4: for a bot that matches an entry, classify_bot returns blocked exactly
\* when the matched entry's disallow list holds the string `/` or `/*` and
\* its allow list holds neither; in every other matched case (a disallow
\* list of non-root paths or of empty strings included) it returns allowed.
C4_BlockedIffRootDisallowed ==
    (Classified /\ bot_status[1].matched_agent # <<>>) =>
      LET r == RulesOf(agent_rules, bot_status[1].matched_agent[1])
      IN /\ bot_status[1].status \in {"blocked", "allowed"}
         /\ bot_status[1].status = "blocked" <=> (HasRoot(r.disallow) /\ ~HasRoot(r.allow))

\* C4 witness: a bot matched by `*`, whose disallow list holds a non-root
\* path and an empty string, was classified allowed
C4_Witness ==
    /\ Classified
    /\ bot_status[1].matched_agent = <<"*">>
    /\ RulesOf(agent_rules, "*").disallow = <<"/private/", "">>
    /\ bot_status[1].status = "allowed"

\* The keys equal to the bot name without regard to letter case
DirectKeys(bot) == {k \in Keys(agent_rules) : Lower(k) = Lower(bot)}

\* C5: when an entry's key equals the bot name case-insensitively the
\* status is decided from such an entry, whatever `*` says; `*` decides only
\* when there is no such entry; the status is missing exactly when there is
\* neither.
C5_DirectThenWildcardElseMissing ==
    Classified =>
      LET st == bot_status[1]
          direct == DirectKeys(st.bot)
      IN /\ direct # {} =>
              /\ st.matched_agent # <<>> /\ st.matched_agent[1] \in direct
              /\ st.status = EntryStatus(RulesOf(agent_rules, st.matched_agent[1]))
         /\ (direct = {} /\ "*" \in Keys(agent_rules)) =>
              /\ st.matched_agent = <<"*">>
              /\ st.status = EntryStatus(RulesOf(agent_rules, "*"))
         /\ st.status = "missing" <=> (direct = {} /\ "*" \notin Keys(agent_rules))

\* C5 witness: GPTBot, listed as `gptbot` and allowed there, was classified
\* allowed although the `*` entry blocks everything
C5_Witness ==
    /\ Classified
    /\ bot_status[1].bot = "GPTBot"
    /\ bot_status[1].matched_agent = <<"gptbot">>
    /\ bot_status[1].status = "allowed"
    /\ "*" \in Keys(agent_rules)
    /\ EntryStatus(RulesOf(agent_rules, "*")) = "blocked"

Scored == pc = "scored"

\* C7: setting any one boolean field of the five results from false to true,
\* the rest held fixed, never lowers compute_geo_score's result.
C7_ScoreMonotonic ==
    Scored =>
      /\ \A f \in {"found", "citation_bots_ok"} :
           ~robots[f] =>
             compute_geo_score([robots EXCEPT ![f] = TRUE], llms, schema, meta, content) >= score
      /\ \A f \in DOMAIN llms :
           ~llms[f] =>
             compute_geo_score(robots, [llms EXCEPT ![f] = TRUE], schema, meta, content) >= score
      /\ \A f \in DOMAIN schema :
           ~schema[f] =>
             compute_geo_score(robots, llms, [schema EXCEPT ![f] = TRUE], meta, content) >= score
      /\ \A f \in DOMAIN meta :
           ~meta[f] =>
             compute_geo_score(robots, llms, schema, [meta EXCEPT ![f] = TRUE], content) >= score
      /\ \A f \in DOMAIN content :
           ~content[f] =>
             compute_geo_score(robots, llms, schema, meta, [content EXCEPT ![f] = TRUE]) >= score

\* C7 witness: a scored audit with some bot allowed and citation_bots_ok
\* false, where the flag to flip swaps the +8 for the +15
C7_Witness ==
    /\ Scored
    /\ robots.found /\ ~robots.citation_bots_ok /\ robots.bots_allowed # <<>>
    /\ score = 13

AllFlags(r, v) == \A f \in DOMAIN r : r[f] = v

\* C8: the score is 0 when every field of the five results has its default
\* value, and 100 when every boolean field of the five results is true.
C8_ZeroAndPerfect ==
    Scored =>
      /\ ( /\ robots = DefaultRobots /\ AllFlags(llms, FALSE) /\ AllFlags(schema, FALSE)
           /\ AllFlags(meta, FALSE) /\ AllFlags(content, FALSE) ) => score = 0
      /\ ( /\ robots.found /\ robots.citation_bots_ok /\ AllFlags(llms, TRUE)
           /\ AllFlags(schema, TRUE) /\ AllFlags(meta, TRUE) /\ AllFlags(content, TRUE) )
         => score = 100

\* C8 witness: the perfect results have been scored
C8_Witness ==
    /\ Scored
    /\ robots.found /\ robots.citation_bots_ok /\ robots.bots_allowed # <<>>
    /\ AllFlags(llms, TRUE) /\ AllFlags(schema, TRUE)
    /\ AllFlags(meta, TRUE) /\ AllFlags(content, TRUE)

\* C9: the point sum before the final min lies in 0..100, so the min leaves
\* it as it is, and the robots block never adds both the citation bonus and
\* the some-allowed bonus.
C9_SumWithinRange ==
    Scored =>
      /\ ScoreSum(robots, llms, schema, meta, content) \in 0..100
      /\ score = ScoreSum(robots, llms, schema, meta, content)
      /\ RobotsPoints(robots) - (IF robots.found THEN 5 ELSE 0) \in {0, 8, 15}

\* C9 witness: citation_bots_ok holds and bots_allowed is not empty, so both
\* bonus conditions are met, in an otherwise perfect audit
C9_Witness ==
    /\ Scored
    /\ robots.found /\ robots.citation_bots_ok /\ robots.bots_allowed # <<>>
    /\ score = 100

\* C10: every integer from 0 to 100 lies in exactly one band's range and
\* gets that band: 0..40 critical, 41..70 foundation, 71..90 good, 91..100
\* excellent; every integer outside 0..100 gets critical.
C10_BandPartition ==
    pc = "banded" =>
      /\ band = (IF score < 0 \/ score > 100 THEN "critical"
                 ELSE IF score <= 40 THEN "critical"
                 ELSE IF score <= 70 THEN "foundation"
                 ELSE IF score <= 90 THEN "good"
                 ELSE "excellent")
      /\ Cardinality({i \in 1..Len(SCORE_BANDS) :
                        SCORE_BANDS[i][2] <= score /\ score <= SCORE_BANDS[i][3]})
           = (IF score \in 0..100 THEN 1 ELSE 0)

\* C10 witness: the boundary score 71 has been given its band
C10_Witness == pc = "banded" /\ score = 71 /\ band = "good"

\* The conditions of build_recommendations, in the order the specification
\* numbers them: TRUE where the condition is unmet
Unmet ==
    << ~robots.citation_bots_ok, ~llms.found, ~schema.has_website, ~schema.has_faq,
       ~meta.has_description, ~content.has_numbers, ~content.has_links >>

\* The string that stands for each condition
RecText ==
    << RecRobots, RecLlms(base_url), RecWebSite, RecFaq, RecDescription, RecNumbers,
       RecLinks >>

Rank(rec) == CHOOSE k \in 1..7 : RecText[k] = rec

\* C11: build_recommendations returns exactly one string for each unmet
\* condition among the seven, no string for a met condition, and lists the
\* strings in the fixed order 1 to 7.
C11_OnePerUnmetInOrder ==
    Scored =>
      /\ \A i \in 1..Len(recommendations) : \E k \in 1..7 : RecText[k] = recommendations[i]
      /\ \A k \in 1..7 : Count(RecText[k], recommendations) = (IF Unmet[k] THEN 1 ELSE 0)
      /\ \A i, j \in 1..Len(recommendations) :
           i < j => Rank(recommendations[i]) < Rank(recommendations[j])

\* C11 witness: exactly the conditions 2, 4 and 7 are unmet and their three
\* strings were returned
C11_Witness ==
    /\ Scored
    /\ Unmet = <<FALSE, TRUE, FALSE, TRUE, FALSE, FALSE, TRUE>>
    /\ recommendations = <<RecLlms(Target), RecFaq, RecLinks>>

\* C12 (as claimed): each per-check score format_audit_json emits equals
\* the points compute_geo_score awards for that category on the same
\* sub-results, whatever the field values.
C12_CheckScoresMatch ==
    pc = "formatted" =>
      /\ checks.robots_txt = RobotsPoints(robots)
      /\ checks.llms_txt = LlmsPoints(llms)
      /\ checks.schema_jsonld = SchemaPoints(schema)
      /\ checks.meta_tags = MetaPoints(meta)
      /\ checks.content = ContentPoints(content)

\* The script blocks json.loads accepts
ParsedBlocks == {i \in 1..Len(page.scripts) : page.scripts[i].kind = "value"}

\* The number of JSON values in the parsed blocks up to block n: a block
\* that is an array counts once per element
RECURSIVE ParsedItems(_)
ParsedItems(n) ==
    IF n = 0 THEN 0
    ELSE ParsedItems(n - 1)
         + (IF page.scripts[n].kind = "value" THEN Len(page.scripts[n].items) ELSE 0)

\* The number of type strings the parsed blocks name
RECURSIVE TypeStrings(_)
TypeStrings(items) ==
    IF items = <<>> THEN 0 ELSE Len(SchemaTypes(Head(items))) + TypeStrings(Tail(items))

SchemaAudited == pc = "schema" /\ raised = ""

WebSiteWebApp == ValueBlock(Object(TypeList(<<"WebSite", "WebApplication">>)))

\* C13 (as claimed): after audit_schema the length of raw_schemas equals the
\* number of script blocks that were parsed successfully; a single block
\* whose @type is [WebSite, WebApplication] yields two found_types and one
\* raw schema.
C13_Original ==
    SchemaAudited =>
      /\ Len(raw_schemas) = Cardinality(ParsedBlocks)
      /\ page.scripts = <<WebSiteWebApp>> => (Len(found_types) = 2 /\ Len(raw_schemas) = 1)

\* C13 (amended): after audit_schema returns, the length of raw_schemas
\* equals the number of JSON objects in the blocks that were parsed
\* successfully (a block holding an array counts once per element, a block
\* holding one object once), whatever the number of type strings, which is
\* the length of found_types; a single block whose @type is
\* [WebSite, WebApplication] yields two found_types and one raw schema.
C13_RawSchemaPerObject ==
    SchemaAudited =>
      /\ Len(raw_schemas) = ParsedItems(Len(page.scripts))
      /\ Len(found_types) = TypeStrings(raw_schemas)
      /\ page.scripts = <<WebSiteWebApp>> =>
           /\ found_types = <<"WebSite", "WebApplication">>
           /\ Len(raw_schemas) = 1

\* C13 witness: the block with the two types, after an invalid block, has
\* been audited
C13_Witness ==
    /\ SchemaAudited
    /\ page.scripts = <<InvalidBlock, WebSiteWebApp>>
    /\ Len(found_types) = 2
    /\ Len(raw_schemas) = 1

Audited == pc = "audited"

\* C14: whenever the homepage fetch fails (transport error, no response),
\* either orchestrator raises nothing and returns an AuditResult with score
\* 0, band critical, all five sub-results at their defaults and exactly one
\* recommendation, which names the unreachable target.
C14_UnreachableIsZero ==
    (Audited /\ home = Failure) =>
      /\ raised = ""
      /\ score = 0 /\ band = "critical"
      /\ robots = DefaultRobots
      /\ llms = DefaultLlms
      /\ AllFlags(schema, FALSE) /\ found_types = <<>> /\ raw_schemas = <<>>
      /\ AllFlags(meta, FALSE)
      /\ AllFlags(content, FALSE)
      /\ Len(recommendations) = 1
      /\ recommendations[1][1] = "Unable to reach "
      /\ recommendations[1][2] = Target

\* C14 witness: the homepage could not be fetched although robots.txt and
\* llms.txt answer 200, and the synchronous orchestrator has returned
C14_Witness ==
    /\ Audited
    /\ entry = "run_full_audit"
    /\ home = Failure
    /\ resp = Response(200) /\ text = AllowNamed
    /\ llms_resp = Response(200) /\ llms_text = LlmsDoc
    /\ Len(recommendations) = 1

\* A script block the schema check can use: valid JSON whose value is an
\* object, or an array of objects
Usable(b) == b.kind = "value" /\ \A i \in 1..Len(b.items) : b.items[i].isobj

\* C15 (as claimed): when the homepage fetch succeeds nothing raises out of
\* the orchestrator, a robots.txt or llms.txt that fails or answers non-200
\* yields that check's default, a JSON-LD block that cannot be used is
\* skipped (the schema result is that of the usable blocks), the other
\* checks are what they are without the failure, and score, band and
\* recommendations are produced from the five results.
C15_ChecksAreIndependent ==
    (Audited /\ home = Response(200)) =>
      /\ raised = ""
      /\ resp # Response(200) => robots = DefaultRobots
      /\ resp = Response(200) => robots = ClassifyRoster(parse_robots_txt(text))
      /\ llms_resp # Response(200) => llms = DefaultLlms
      /\ llms_resp = Response(200) => llms = CheckLlms(llms_text)
      /\ LET usable == audit_schema([page EXCEPT !.scripts = SelectSeq(@, Usable)])
         IN /\ schema = SchemaFlags(usable)
            /\ found_types = usable.found_types
            /\ raw_schemas = usable.raw_schemas
      /\ meta = audit_meta_tags(page)
      /\ content = audit_content_quality(page, base_url)
      /\ score = compute_geo_score(robots, llms, schema, meta, content)
      /\ band = get_score_band(score)
      /\ recommendations =
           build_recommendations(base_url, robots, llms, schema, meta, content)

\* robots.txt names the agent and allows it with `Allow: /`
AllowsByName(lines, agent) ==
    \E i \in 1..(Len(lines) - 1) :
       /\ IsAgentLine(lines[i]) /\ lines[i].val = agent
       /\ IsAllowLine(lines[i + 1]) /\ lines[i + 1].val = "/"

\* The audit of the end-to-end scenario: robots.txt (200) allows GPTBot and
\* ClaudeBot via `Allow: /`; llms.txt (200) has an H1, a blockquote, an H2
\* and one link; the homepage has JSON-LD object blocks, one of them a
\* WebSite, a title, a meta description of 150 characters, an h1, three
\* numeric tokens and one external link
Scenario ==
    /\ home = Response(200)
    /\ resp = Response(200)
    /\ AllowsByName(text, "GPTBot") /\ AllowsByName(text, "ClaudeBot")
    /\ llms_resp = Response(200)
    /\ \E i \in 1..Len(llms_text) : StartsWith(llms_text[i], "# ")
    /\ \E i \in 1..Len(llms_text) : StartsWith(llms_text[i], "> ")
    /\ \E i \in 1..Len(llms_text) : StartsWith(llms_text[i], "## ")
    /\ Cardinality({i \in 1..Len(llms_text) : llms_text[i].link}) = 1
    /\ \A i \in 1..Len(page.scripts) :
          page.scripts[i].kind = "value" /\ ~page.scripts[i].islist
          /\ page.scripts[i].items[1].isobj
    /\ \E i \in 1..Len(page.scripts) :
          InSeq("WebSite", SchemaTypes(page.scripts[i].items[1]))
    /\ page.title # <<>> /\ Strip(page.title[1]) # ""
    /\ page.description = <<150>>
    /\ page.h1
    /\ CountNumbers(page.words) = 3
    /\ Cardinality({i \in 1..Len(page.links) : IsExternal(page.links[i], "example.com")}) = 1

Yielded(i) == IF tasks[i].result.exc THEN Failure ELSE tasks[i].result.r

\* The AuditResult the three yields determine, each taken for its own URL
FromYields ==
    LET rob == IF Yielded(2) = Response(200)
               THEN ClassifyRoster(parse_robots_txt(text)) ELSE DefaultRobots
        ll == IF Yielded(3) = Response(200) THEN CheckLlms(llms_text) ELSE DefaultLlms
    IN IF Yielded(1) = Failure
       THEN [DefaultAudit(Target) EXCEPT
               !.recommendations = <<RecUnreachable(Target, "Connection failed")>>]
       ELSE AuditPage(Target, Yielded(1), page, rob, ll)

\* C16: the result of run_full_audit_async depends only on what the three
\* fetches yielded, not on the order in which they started or completed:
\* in every interleaving, a fetch that fails or raises included, each
\* response is attributed to its own URL and the AuditResult is the one the
\* three yields determine.
C16_OrderDoesNotMatter ==
    (Audited /\ entry = "run_full_audit_async" /\ tasks # <<>>) =>
      /\ raised = FromYields.raised
      /\ \A i \in 1..3 :
           /\ responses[i].url = AsyncUrls(Target)[i]
           /\ responses[i].r = Yielded(i)
           /\ Yielded(i) \in {Answer(i), Failure}
      /\ base_url = FromYields.url
      /\ score = FromYields.score /\ band = FromYields.band
      /\ robots = FromYields.robots
      /\ llms = FromYields.llms
      /\ schema = SchemaFlags(FromYields.schema)
      /\ found_types = FromYields.schema.found_types
      /\ meta = FromYields.meta
      /\ content = FromYields.content
      /\ recommendations = FromYields.recommendations

\* C16 witness: llms.txt was requested first and answered last, robots.txt
\* failed by raising, the homepage answered 200, and the audit has its
\* result
C16_Witness ==
    /\ Audited
    /\ tasks # <<>>
    /\ requested[1].url = urljoin(Target, "/llms.txt")
    /\ completed = <<2, 1, 3>>
    /\ tasks[2].result.exc
    /\ home = Response(200) /\ llms_resp = Response(200)
    /\ llms.found /\ ~robots.found
    /\ score > 0

\* The fetches issued at one recursion depth
AtDepth(d) == {k \in DOMAIN requested : requested[k].depth = d}

\* What the recursion guarantees in every state: no fetch at depth 3 or
\* more, every call loops over the first 10 references of its index at
\* most, at most 1, 10 and 100 fetches at depths 0, 1 and 2
SitemapBounded ==
    /\ \A k \in DOMAIN requested : requested[k].depth < 3
    /\ \A j \in DOMAIN stack :
         /\ Len(stack[j].tags) <= 10
         /\ \A i \in DOMAIN stack[j].tags :
              stack[j].tags[i] = sitemaps[stack[j].url].sitemap_tags[i]
    /\ Cardinality(AtDepth(0)) <= 1
    /\ Cardinality(AtDepth(1)) <= 10
    /\ Cardinality(AtDepth(2)) <= 100
    /\ pc = "done" => stack = <<>> /\ Len(urls) <= MaxChildren * MaxChildren * 3

\* C17 as stated: fetch_sitemap terminates with a list for every sitemap
\* content, makes no HTTP request at depth 3 or more, follows at most the
\* first 10 references of an index, and so one top-level call issues at
\* most 1 + 10 + 100 = 111 HTTP requests.
C17_Original ==
    /\ <>(pc = "done")
    /\ [](entry = "fetch_sitemap" => SitemapBounded /\ sent <= 1 + 10 + 100)

\* C17 amended: fetch_sitemap terminates with a list for every sitemap
\* content, makes no fetch at depth 3 or more, follows at most the first 10
\* references of an index, and so one top-level call makes at most
\* 1 + 10 + 100 = 111 fetches (calls of session.get); the HTTP requests the
\* retrying session sends for them are not bounded by 111.
C17_BoundedFetches ==
    /\ <>(pc = "done")
    /\ [](entry = "fetch_sitemap" =>
            SitemapBounded /\ Len(requested) <= 1 + 10 + 100 /\ sent >= Len(requested))

\* C17 witness: an index that lists itself more than 10 times has been
\* walked to the end, with exactly 111 fetches and an empty list
C17_Witness ==
    /\ pc = "done"
    /\ sitemaps[Root] = Index(Repeat(Root, MaxChildren))
    /\ Len(requested) = 111
    /\ urls = <<>>

\* C18: fetch_sitemap never requests a child sitemap URL that points to a
\* private or internal address: such a child is ignored and contributes no
\* URLs, while the children on public hosts are still fetched.
C18_PrivateChildIgnored ==
    entry = "fetch_sitemap" =>
      /\ \A k \in DOMAIN requested :
           requested[k].depth > 0 => validate_public_url(requested[k].url)
      /\ \A i \in DOMAIN urls : validate_public_url(urls[i])
      /\ (pc = "done" /\ sitemaps[Root] = Index(<<Sub, Private>>)) =>
           \E k \in DOMAIN requested : requested[k].url = Sub

\* The entry points that ask the guard themselves
Guarded == entry \in {"cli", "api", "badge"}

\* C19: the public-URL guard is applied to the target before any fetch: on
\* every path that reaches a homepage, robots.txt or llms.txt request (the
\* CLI command, /api/audit, /badge, a direct call to run_full_audit or
\* run_full_audit_async) the guard has accepted the URL, and a rejected URL
\* leads to no request.
C19_GuardBeforeFetch ==
    /\ requested # <<>> => guard = "accepted"
    /\ (entry # "" /\ ~validate_public_url(Prefixed(url))) => requested = <<>>

\* The recommendations the scenario leaves: the robots.txt one while a
\* citation bot is not allowed, the FAQPage one while no FAQPage schema is
\* supplied
ScenarioRecs ==
    (IF \A b \in CITATION_BOTS : InSeq(b, robots.bots_allowed) THEN <<>> ELSE <<RecRobots>>)
    \o (IF InSeq("FAQPage", found_types) THEN <<>> ELSE <<RecFaq>>)

BareScenario ==
    /\ home = Response(200)
    /\ resp = Response(404)
    /\ llms_resp = Response(404)
    /\ page.scripts = <<>>
    /\ page.description = <<>>
    /\ CountNumbers(page.words) = 0
    /\ \A i \in 1..Len(page.links) : ~IsExternal(page.links[i], "example.com")

\* C22 as stated: in the second scenario the score is 0, the band is
\* critical and the recommendations are the seven entries in their order.
C22_Original ==
    (Audited /\ BareScenario) =>
      /\ score = 0
      /\ band = "critical"
      /\ recommendations = RecText

\* C22 amended: in the second scenario the band is critical and the
\* recommendations are the seven entries in their order; the score is the
\* points of what the page still has (title 5, canonical 3, Open Graph 4,
\* h1 4), and it is 0 when the page has none of these.
C22_BareScenario ==
    (Audited /\ BareScenario) =>
      /\ band = "critical"
      /\ recommendations = RecText
      /\ score = (IF meta.has_title THEN 5 ELSE 0) + (IF meta.has_canonical THEN 3 ELSE 0)
                 + (IF meta.has_og_title /\ meta.has_og_description THEN 4 ELSE 0)
                 + (IF content.has_h1 THEN 4 ELSE 0)
      /\ (page.title = <<>> /\ ~page.h1 /\ ~page.canonical /\ ~page.og_title) => score = 0

\* C22 witness: the second scenario with a page that has a title and an h1
\* has been audited: 9 points, seven recommendations
C22_Witness ==
    /\ Audited
    /\ BareScenario
    /\ page = ErrorPage
    /\ score = 9
    /\ Len(recommendations) = 7

\* C23: whenever robots.txt is fetched with status 200, for every content
\* the RobotsResult's bots_allowed, bots_blocked and bots_missing are
\* pairwise disjoint and together hold each of the 14 roster bots exactly
\* once.
C23_RosterPartition ==
    Parsed =>
      /\ Cardinality(BotNames) = 14
      /\ \A b \in BotNames :
           Count(b, robots.bots_allowed) + Count(b, robots.bots_blocked)
             + Count(b, robots.bots_missing) = 1
      /\ Len(robots.bots_allowed) + Len(robots.bots_blocked) + Len(robots.bots_missing) = 14

\* C23 witness: a robots.txt that blocks GPTBot by name and has no wildcard
\* group has been audited: one bot blocked, thirteen missing
C23_Witness ==
    /\ Parsed
    /\ robots.bots_blocked = <<"GPTBot">>
    /\ robots.bots_allowed = <<>>
    /\ Len(robots.bots_missing) = 13

Generated == pc = "generated"

\* The entries whose URL, once normalised, is u
EntriesFor(u) == {k \in 1..Len(urls) : JoinLoc(Target, urls[k].url) = u}

\* C24: in the output of generate_llms_txt every surviving URL is linked at
\* most once, and of several entries with the same URL the one kept is the
\* first in descending-priority order (equal priorities keep input order):
\* a lower-priority duplicate never displaces a higher-priority entry.
C24_HighestPriorityKept ==
    Generated =>
      /\ \A i, j \in 1..Len(linked) : linked[i].url = linked[j].url => i = j
      /\ \A i \in 1..Len(linked) :
           LET kept == linked[i].label
           IN /\ kept \in EntriesFor(linked[i].url)
              /\ \A k \in EntriesFor(linked[i].url) :
                   (~urls[k].priority.nan /\ ~urls[kept].priority.nan) =>
                     \/ urls[k].priority.v < urls[kept].priority.v
                     \/ urls[k].priority.v = urls[kept].priority.v /\ kept <= k

\* C25: after any sequence of audit results stored for distinct URLs, the
\* web app's audit cache never holds more than _MAX_CACHE_SIZE entries:
\* storing into a full cache evicts an entry instead of growing the cache.
C25_CacheBounded == pc = "web" => Len(audit_cache) <= _MAX_CACHE_SIZE

\* C29: no web endpoint serves an audit result older than the cache TTL:
\* past it, /api/audit and /badge run a fresh audit and /report/{id}
\* answers 404 instead of rendering the entry.
C29_NothingServedPastTtl ==
    (pc = "web" /\ served.from \in {"cache", "report"}) => served.age <= _CACHE_TTL

\* The put calls for u in the history
PutsOf(u) == {i \in 1..Len(log) : log[i].op = "put" /\ log[i].url = u}

\* The most recent put for u
LastPut(u) == CHOOSE i \in PutsOf(u) : \A j \in PutsOf(u) : j <= i

\* At time t the most recent put for u is no more than ttl seconds old and
\* no clear followed it
StillCached(u, t) ==
    /\ PutsOf(u) # {}
    /\ t - log[LastPut(u)].at <= DEFAULT_TTL
    /\ \A j \in LastPut(u) + 1..Len(log) : log[j].op # "clear"

\* C30: for FileCache, after any sequence of put, get and clear calls,
\* get(url) returns the triple of the most recent put for that url if and
\* only if that put happened no more than ttl seconds ago and no clear
\* followed it; otherwise it returns None, and a get that finds an expired
\* entry removes it, so that stats no longer counts it.
C30_GetReturnsLastPut ==
    (pc = "files" /\ entry = "get") =>
      LET u == served.url
      IN /\ StillCached(u, served.at) => served.data = <<log[LastPut(u)].triple>>
         /\ ~StillCached(u, served.at) =>
              /\ served.data = <<>>
              /\ FileOf(file_cache, u) = <<>>
              /\ served.age = FileCache_stats(file_cache)
              /\ FileCache_stats(file_cache)
                   = Cardinality({v \in CachedUrls : v # u /\ FileOf(file_cache, v) # <<>>})

\* C30 witnesses: a get at exactly ttl seconds after the put returns the
\* triple; a later get finds the entry expired, returns None and removes
\* the file
C30_Witness ==
    /\ pc = "files"
    /\ entry = "get"
    /\ PutsOf(served.url) # {}
    /\ served.at - log[LastPut(served.url)].at > DEFAULT_TTL
    /\ \A j \in 1..Len(log) : log[j].op # "clear"
    /\ served.data = <<>>
    /\ \E i \in 1..Len(log) : log[i].op = "put" /\ log[i].url # served.url

\* The other spelling of an agent name written in the modelled files
Respell(v) == IF v = "GPTBot" THEN "gptbot" ELSE IF v = "gptbot" THEN "GPTBot" ELSE v

\* The file with the User-agent token of line i in its other spelling
RespelledAt(lines, i) == [lines EXCEPT ![i].val = Respell(@)]

\* C26: bot classification does not depend on the letter case of the agent
\* names in robots.txt: replacing any User-agent token by a different-case
\* spelling of the same name leaves the allowed / blocked / missing status
\* of every roster bot unchanged, also when the same agent appears in
\* several groups under different spellings.
C26_CaseDoesNotMatter ==
    Parsed =>
      \A i \in 1..Len(text) :
        IsAgentLine(text[i]) =>
          LET respelled == ClassifyRoster(parse_robots_txt(RespelledAt(text, i)))
          IN /\ respelled.bots_allowed = robots.bots_allowed
             /\ respelled.bots_blocked = robots.bots_blocked
             /\ respelled.bots_missing = robots.bots_missing

\* The sum of the five "score" entries of format_audit_json's "checks"
SumOfChecks(ch) ==
    ch.robots_txt + ch.llms_txt + ch.schema_jsonld + ch.meta_tags + ch.content

\* C27: for every AuditResult returned by run_full_audit or
\* run_full_audit_async, whatever the homepage, robots.txt and llms.txt
\* answer, the five per-check scores reported by format_audit_json add up
\* exactly to the result's score.
C27_ChecksAddUp ==
    Audited => SumOfChecks(format_audit_json(robots, llms, schema, meta, content)) = score

\* C27 witness: an audit with points in all five checks and a score
\* between the extremes
C27_Witness ==
    /\ Audited
    /\ \A k \in DOMAIN format_audit_json(robots, llms, schema, meta, content) :
         format_audit_json(robots, llms, schema, meta, content)[k] > 0
    /\ robots.bots_allowed # <<>> /\ ~robots.citation_bots_ok
    /\ score < 100

\* What run_full_audit returns for the target and the fetch outcomes of
\* the state
SyncResult ==
    run_full_audit(NormaliseUrl(url), home, page, resp, text, llms_resp, llms_text)

\* C28: for the same target URL and the same three fetch outcomes,
\* run_full_audit_async returns an AuditResult equal to the one
\* run_full_audit returns in every field except timestamp; in particular
\* _audit_robots_from_response and _audit_llms_from_response produce the
\* same results as audit_robots_txt and audit_llms_txt.
C28_AsyncEqualsSync ==
    (Audited /\ entry = "run_full_audit_async") =>
      /\ base_url = SyncResult.url
      /\ robots = SyncResult.robots
      /\ llms = SyncResult.llms
      /\ schema = SchemaFlags(SyncResult.schema)
      /\ found_types = SyncResult.schema.found_types
      /\ raw_schemas = SyncResult.schema.raw_schemas
      /\ meta = SyncResult.meta
      /\ content = SyncResult.content
      /\ score = SyncResult.score
      /\ band = SyncResult.band
      /\ recommendations = SyncResult.recommendations
      /\ raised = SyncResult.raised

====
